---- MODULE Spec2Model ----
(***************************************************************************)
(* AMLX binary codec of amll-ttml (binary_codec.go, types.go).             *)
(*                                                                         *)
(* Scaling.  The codec works on uint64 and float64.  The model keeps the   *)
(* arithmetic but on a narrower machine word: an unsigned integer has      *)
(* WordBits bits, a float has MantBits bits of mantissa.  Every width      *)
(* dependent quantity of the code (the time ceiling ^uint64(0)>>1, the     *)
(* longest varint, the rounding of float64(maxBinaryTimeMS)) is computed   *)
(* from WordBits the way the code computes it from 64.                     *)
(*                                                                         *)
(* Bytes are naturals 0..255, byte strings and Go strings are sequences    *)
(* of bytes ([]byte(s) and string(raw) copy the bytes unchanged).          *)
(***************************************************************************)
EXTENDS Integers, Sequences, FiniteSets, TLC

(***************************************************************************)
(* Bounds of the model.                                                    *)
(***************************************************************************)
WordBits == 8

MaxWords == 2

MaxLines == 2

MaxMeta == 2

MaxTamper == 1

(***************************************************************************)
(* Machine arithmetic.                                                     *)
(***************************************************************************)
Pow2(n) == 2 ^ n

WordMod == Pow2(WordBits)

\* uint64 arithmetic wraps modulo 2^WordBits.
Wrap(x) == x % WordMod

MantBits == WordBits - 3

\* The element of a one-element set.  The({e(x) : x \in {v}}) is e(v) with
\* v computed once: the model's form of a local variable.
The(S) == CHOOSE x \in S : TRUE

RECURSIVE BitLen(_)
BitLen(n) == IF n = 0 THEN 0 ELSE 1 + BitLen(n \div 2)

(***************************************************************************)
(* float64.  A float is NaN, +Inf, -Inf or a finite value; a finite value  *)
(* is held exactly as a count q of quarter milliseconds (value = q / 4).   *)
(***************************************************************************)
Fin(q) == [k |-> "fin", q |-> q]

NaN == [k |-> "nan", q |-> 0]

PosInf == [k |-> "pinf", q |-> 0]

NegInf == [k |-> "ninf", q |-> 0]

IsNaN(f) == f.k = "nan"

IsInf(f) == f.k \in {"pinf", "ninf"}

\* f < 0 and f > 0 as float64 comparisons (false for NaN).
FloatNegative(f) == f.k = "ninf" \/ (f.k = "fin" /\ f.q < 0)

FloatPositive(f) == f.k = "pinf" \/ (f.k = "fin" /\ f.q > 0)

\* math.Round of a finite non-negative float, in milliseconds:
\* nearest integer, halves away from zero.
RoundMS(f) == (f.q + 2) \div 4

\* A finite float of integral value n >= 0 rounded to MantBits bits of
\* mantissa, ties to even: the integer that float64(n) holds.
RoundToFloat(n) ==
  LET e == BitLen(n) - MantBits IN
  IF e <= 0 THEN n
  ELSE LET step == Pow2(e)
           lo == (n \div step) * step
           r == n - lo
       IN IF 2 * r < step THEN lo
          ELSE IF 2 * r > step THEN lo + step
          ELSE IF (lo \div step) % 2 = 0 THEN lo ELSE lo + step

\* float64(u) for an unsigned integer u.
Float64(u) == Fin(4 * RoundToFloat(u))

(***************************************************************************)
(* Constants of binary_codec.go.                                           *)
(***************************************************************************)
amlxMagic == <<65, 77, 76, 88>>

amlxVersion == 1

maxBinaryTimeMS == (WordMod - 1) \div 2

lineFlagIsBG == 1

lineFlagIsDuet == 2

lineFlagIgnoreSync == 4

lineFlagHasTranslatedLyric == 8

lineFlagHasRomanLyric == 16

lineFlagMask ==
  lineFlagIsBG + lineFlagIsDuet + lineFlagIgnoreSync
    + lineFlagHasTranslatedLyric + lineFlagHasRomanLyric

wordFlagObscene == 1

wordFlagHasEmptyBeat == 2

wordFlagHasRomanWord == 4

wordFlagRomanWarning == 8

wordFlagMask ==
  wordFlagObscene + wordFlagHasEmptyBeat + wordFlagHasRomanWord + wordFlagRomanWarning

\* x & flag # 0 and x &^ mask for the single-bit flags and the low-bit masks above.
HasFlag(x, flag) == (x \div flag) % 2 = 1

AndNot(x, mask) == (x \div (mask + 1)) * (mask + 1)

(***************************************************************************)
(* Errors.  An error is its message kind and the field path it names.      *)
(***************************************************************************)
NoErr == [kind |-> "", line |-> 0 - 1, word |-> 0 - 1, field |-> ""]

Err(kind, line, word, field) ==
  [kind |-> kind, line |-> line, word |-> word, field |-> field]

(***************************************************************************)
(* Varints.                                                                *)
(***************************************************************************)
\* binary.MaxVarintLen64 for a WordBits-bit word.
MaxVarintLen == (WordBits + 6) \div 7

\* The largest final byte of a MaxVarintLen-byte varint that fits the word.
LastVarintByteMax == Pow2(WordBits - 7 * (MaxVarintLen - 1)) - 1

RECURSIVE PutUvarint(_)
PutUvarint(x) ==
  IF x >= 128 THEN <<(x % 128) + 128>> \o PutUvarint(x \div 128) ELSE <<x>>

writeUvarint(buf, value) == buf \o PutUvarint(value)

\* A read: ok, the value, the reader's offset afterwards, the error kind.
ReadOk(v, pos) == [ok |-> TRUE, v |-> v, pos |-> pos, e |-> ""]

ReadFail(e, pos) == [ok |-> FALSE, v |-> 0, pos |-> pos, e |-> e]

RECURSIVE ReadUvarintLoop(_, _, _, _, _)
ReadUvarintLoop(buf, pos, i, x, s) ==
  IF i = MaxVarintLen THEN ReadFail("varint overflow", pos)
  ELSE IF pos >= Len(buf)
    THEN ReadFail(IF i > 0 THEN "unexpected EOF" ELSE "EOF", pos)
  ELSE LET b == buf[pos + 1] IN
    IF b < 128
      THEN IF i = MaxVarintLen - 1 /\ b > LastVarintByteMax
             THEN ReadFail("varint overflow", pos + 1)
             ELSE ReadOk(x + b * Pow2(s), pos + 1)
      ELSE ReadUvarintLoop(buf, pos + 1, i + 1, x + (b % 128) * Pow2(s), s + 7)

ReadUvarint(buf, pos) == ReadUvarintLoop(buf, pos, 0, 0, 0)

\* readUvarint taking the end of the stream for a zero.
readUvarintEOFAsZero(buf, pos) ==
  The({IF r.ok THEN r
       ELSE IF r.e = "EOF" THEN ReadOk(0, r.pos)
       ELSE r : r \in {ReadUvarint(buf, pos)}})

\* readUvarint: an EOF of binary.ReadUvarint becomes io.ErrUnexpectedEOF.
readUvarint(buf, pos) ==
  The({IF r.ok THEN r
       ELSE IF r.e = "EOF" THEN ReadFail("unexpected EOF", r.pos)
       ELSE r : r \in {ReadUvarint(buf, pos)}})

\* reader.ReadByte of bytes.Reader.
ReadByte(buf, pos) ==
  IF pos >= Len(buf) THEN ReadFail("EOF", pos) ELSE ReadOk(buf[pos + 1], pos + 1)

toInt(value) ==
  LET maxInt == (WordMod - 1) \div 2 IN
  IF value > maxInt THEN [ok |-> FALSE, v |-> 0] ELSE [ok |-> TRUE, v |-> value]

\* readBytes: the slice read, or the failure.
readBytes(buf, pos, length) ==
  IF length > Len(buf) - pos
    THEN [ok |-> FALSE, v |-> <<>>, pos |-> pos, e |-> "exceeds remaining bytes"]
  ELSE IF ~toInt(length).ok
    THEN [ok |-> FALSE, v |-> <<>>, pos |-> pos, e |-> "is too large"]
  ELSE [ok |-> TRUE, v |-> SubSeq(buf, pos + 1, pos + length),
        pos |-> pos + length, e |-> ""]

(***************************************************************************)
(* Timing helpers.                                                         *)
(***************************************************************************)
\* safeAddMillis with the second test only, its subtraction in uint64.
safeAddMillisOneTest(base, delta) ==
  IF base > Wrap(maxBinaryTimeMS - delta)
    THEN [ok |-> FALSE, v |-> 0]
  ELSE [ok |-> TRUE, v |-> Wrap(base + delta)]

safeAddMillis(base, delta) ==
  IF base > maxBinaryTimeMS \/ delta > maxBinaryTimeMS
    THEN [ok |-> FALSE, v |-> 0]
  ELSE IF base > maxBinaryTimeMS - delta
    THEN [ok |-> FALSE, v |-> 0]
  ELSE [ok |-> TRUE, v |-> Wrap(base + delta)]

\* toMilliseconds testing the sign of the rounded value.
toMillisecondsRoundedSign(value) ==
  IF IsNaN(value) \/ IsInf(value)
    THEN [ok |-> FALSE, v |-> 0, e |-> "must be a finite number"]
  ELSE IF RoundMS(value) < 0
    THEN [ok |-> FALSE, v |-> 0, e |-> "must be >= 0"]
  ELSE LET rounded == RoundMS(value) IN
    IF rounded > RoundToFloat(maxBinaryTimeMS)
      THEN [ok |-> FALSE, v |-> 0, e |-> "overflow"]
      ELSE [ok |-> TRUE, v |-> rounded, e |-> ""]

toMilliseconds(value) ==
  IF IsNaN(value) \/ IsInf(value)
    THEN [ok |-> FALSE, v |-> 0, e |-> "must be a finite number"]
  ELSE IF FloatNegative(value)
    THEN [ok |-> FALSE, v |-> 0, e |-> "must be >= 0"]
  ELSE LET rounded == RoundMS(value) IN
    IF rounded > RoundToFloat(maxBinaryTimeMS)
      THEN [ok |-> FALSE, v |-> 0, e |-> "overflow"]
      ELSE [ok |-> TRUE, v |-> rounded, e |-> ""]

\* stringByID with the bound off by one.
stringByIDOffByOne(stringPool, id) ==
  IF id > Len(stringPool)
    THEN [ok |-> FALSE, v |-> <<>>]
    ELSE [ok |-> TRUE, v |-> IF id < Len(stringPool) THEN stringPool[id + 1] ELSE <<>>]

stringByID(stringPool, id) ==
  IF id >= Len(stringPool)
    THEN [ok |-> FALSE, v |-> <<>>]
    ELSE [ok |-> TRUE, v |-> stringPool[id + 1]]

(***************************************************************************)
(* Data model (types.go).  ID is a string; the zero value of a string is   *)
(* the empty sequence.                                                     *)
(***************************************************************************)
EmptyString == <<>>

LyricWord(id, start, end, text, obscene, emptyBeat, romanWord, romanWarning) ==
  [ID |-> id, StartTime |-> start, EndTime |-> end, Word |-> text,
   Obscene |-> obscene, EmptyBeat |-> emptyBeat, RomanWord |-> romanWord,
   RomanWarning |-> romanWarning]

LyricLine(id, words, translated, roman, isBG, isDuet, start, end, ignoreSync) ==
  [ID |-> id, Words |-> words, TranslatedLyric |-> translated,
   RomanLyric |-> roman, IsBG |-> isBG, IsDuet |-> isDuet,
   StartTime |-> start, EndTime |-> end, IgnoreSync |-> ignoreSync]

TTMLMetadata(key, value, error) == [Key |-> key, Value |-> value, Error |-> error]

TTMLLyric(metadata, lines) == [Metadata |-> metadata, LyricLines |-> lines]

EmptyLyric == TTMLLyric(<<>>, <<>>)

(***************************************************************************)
(* String pool builder.  `values` is the pool; the index map of the code   *)
(* is the position of a string in it.                                      *)
(***************************************************************************)
InPool(values, value) == \E i \in 1..Len(values) : values[i] = value

IndexOf(values, value) == (CHOOSE i \in 1..Len(values) : values[i] = value) - 1

\* add appending the string whether the pool holds it or not.
addAlways(values, value) == Append(values, value)

add(values, value) ==
  IF InPool(values, value) THEN values ELSE Append(values, value)

get(values, value) ==
  IF InPool(values, value)
    THEN [ok |-> TRUE, v |-> IndexOf(values, value)]
    ELSE [ok |-> FALSE, v |-> 0]

RECURSIVE AddAll(_, _)
AddAll(values, strings) ==
  IF strings = <<>> THEN values
  ELSE AddAll(add(values, Head(strings)), Tail(strings))

RECURSIVE MetaStrings(_)
MetaStrings(metadata) ==
  IF metadata = <<>> THEN <<>>
  ELSE <<Head(metadata).Key>> \o Head(metadata).Value \o MetaStrings(Tail(metadata))

RECURSIVE WordStrings(_)
WordStrings(words) ==
  IF words = <<>> THEN <<>>
  ELSE <<Head(words).Word>>
         \o (IF Head(words).RomanWord # EmptyString
               THEN <<Head(words).RomanWord>> ELSE <<>>)
         \o WordStrings(Tail(words))

RECURSIVE LineStrings(_)
LineStrings(lines) ==
  IF lines = <<>> THEN <<>>
  ELSE (IF Head(lines).TranslatedLyric # EmptyString
          THEN <<Head(lines).TranslatedLyric>> ELSE <<>>)
         \o (IF Head(lines).RomanLyric # EmptyString
               THEN <<Head(lines).RomanLyric>> ELSE <<>>)
         \o WordStrings(Head(lines).Words)
         \o LineStrings(Tail(lines))

\* buildStringPool adding the ids of the lines to the pool as well.
buildStringPoolWithIDs(ttmlLyric) ==
  AddAll(AddAll(AddAll(<<>>, MetaStrings(ttmlLyric.Metadata)),
                LineStrings(ttmlLyric.LyricLines)),
         [i \in 1..Len(ttmlLyric.LyricLines) |-> ttmlLyric.LyricLines[i].ID])

buildStringPool(ttmlLyric) ==
  AddAll(AddAll(<<>>, MetaStrings(ttmlLyric.Metadata)),
         LineStrings(ttmlLyric.LyricLines))

(***************************************************************************)
(* Encoding.  A section result is ok, the error, and the bytes.            *)
(***************************************************************************)
SecOk(bytes) == [ok |-> TRUE, err |-> NoErr, bytes |-> bytes]

SecFail(err) == [ok |-> FALSE, err |-> err, bytes |-> <<>>]

RECURSIVE EncodeValueIDs(_, _, _, _, _)
EncodeValueIDs(values, vi, section, stringPool, metaIndex) ==
  IF vi > Len(values) THEN SecOk(section)
  ELSE LET valueID == get(stringPool, values[vi]) IN
    IF ~valueID.ok
      THEN SecFail(Err("missing from string pool", metaIndex, vi - 1, "metadata.value"))
      ELSE EncodeValueIDs(values, vi + 1, writeUvarint(section, valueID.v),
                          stringPool, metaIndex)

RECURSIVE EncodeMetaEntries(_, _, _, _)
EncodeMetaEntries(metadata, mi, section, stringPool) ==
  IF mi > Len(metadata) THEN SecOk(section)
  ELSE LET meta == metadata[mi]
           keyID == get(stringPool, meta.Key)
       IN IF ~keyID.ok
            THEN SecFail(Err("missing from string pool", mi - 1, 0 - 1, "metadata.key"))
          ELSE The({IF ~vals.ok THEN vals
                    ELSE EncodeMetaEntries(metadata, mi + 1,
                           Append(vals.bytes, IF meta.Error THEN 1 ELSE 0), stringPool) :
                    vals \in {EncodeValueIDs(meta.Value, 1,
                                writeUvarint(writeUvarint(section, keyID.v), Len(meta.Value)),
                                stringPool, mi - 1)}})

encodeHeaderSection(metadata, stringPool) ==
  EncodeMetaEntries(metadata, 1, writeUvarint(<<>>, Len(metadata)), stringPool)

RECURSIVE EncodePoolStrings(_, _)
EncodePoolStrings(values, section) ==
  IF values = <<>> THEN section
  ELSE EncodePoolStrings(Tail(values),
         writeUvarint(section, Len(Head(values))) \o Head(values))

\* encodeStringPoolSection closing the section with a zero byte.
encodeStringPoolSectionTerminated(values) ==
  Append(EncodePoolStrings(values, writeUvarint(<<>>, Len(values))), 0)

encodeStringPoolSection(values) ==
  EncodePoolStrings(values, writeUvarint(<<>>, Len(values)))

(***************************************************************************)
(* encodeLyricDataSection.  One word of the first loop, then the loop,     *)
(* then the record written for a line.                                     *)
(***************************************************************************)
encodedWord(startMS, endMS, hasEmptyBeat, emptyBeatMS, hasRomanWord, textID, romanID, wordFlags) ==
  [startMS |-> startMS, endMS |-> endMS, hasEmptyBeat |-> hasEmptyBeat,
   emptyBeatMS |-> emptyBeatMS, hasRomanWord |-> hasRomanWord,
   textID |-> textID, romanID |-> romanID, wordFlags |-> wordFlags]

NoWord == encodedWord(0, 0, FALSE, 0, FALSE, 0, 0, 0)

WordOk(w) == [ok |-> TRUE, err |-> NoErr, w |-> w]

WordFail(err) == [ok |-> FALSE, err |-> err, w |-> NoWord]

\* ClampWordEnd without the clamp.
ClampWordEndKeepsEnd(wordStartMS, wordEndMS) == wordEndMS

\* if wordEndMS < wordStartMS { wordEndMS = wordStartMS }
ClampWordEnd(wordStartMS, wordEndMS) ==
  IF wordEndMS < wordStartMS THEN wordStartMS ELSE wordEndMS

\* ExpandLineStart without the expansion.
ExpandLineStartKeepsStart(lineStartMS, wordStartMS) == lineStartMS

\* if wordStartMS < lineStartMS { lineStartMS = wordStartMS }
ExpandLineStart(lineStartMS, wordStartMS) ==
  IF wordStartMS < lineStartMS THEN wordStartMS ELSE lineStartMS

\* ExpandLineEnd without the expansion.
ExpandLineEndKeepsEnd(lineEndMS, wordEndMS) == lineEndMS

\* if wordEndMS > lineEndMS { lineEndMS = wordEndMS }
ExpandLineEnd(lineEndMS, wordEndMS) ==
  IF wordEndMS > lineEndMS THEN wordEndMS ELSE lineEndMS

\* if lineEndMS < lineStartMS { lineEndMS = lineStartMS }
FinalLineEnd(lineStartMS, lineEndMS) ==
  IF lineEndMS < lineStartMS THEN lineStartMS ELSE lineEndMS

\* The emptyBeat block: has, ms, or the error of toMilliseconds.
\* AcceptsEmptyBeat without the sign test.
AcceptsEmptyBeatAnySign(emptyBeat) == ~IsNaN(emptyBeat) /\ ~IsInf(emptyBeat)

AcceptsEmptyBeat(emptyBeat) ==
  ~IsNaN(emptyBeat) /\ ~IsInf(emptyBeat) /\ FloatPositive(emptyBeat)

EncodeEmptyBeat(emptyBeat) ==
  IF AcceptsEmptyBeat(emptyBeat)
    THEN The({IF ~parsed.ok THEN [ok |-> FALSE, has |-> FALSE, ms |-> 0, e |-> parsed.e]
              ELSE IF parsed.v > 0 THEN [ok |-> TRUE, has |-> TRUE, ms |-> parsed.v, e |-> ""]
              ELSE [ok |-> TRUE, has |-> FALSE, ms |-> 0, e |-> ""] :
              parsed \in {toMilliseconds(emptyBeat)}})
    ELSE [ok |-> TRUE, has |-> FALSE, ms |-> 0, e |-> ""]

PackWordFlags(obscene, hasEmptyBeat, hasRomanWord, romanWarning) ==
  (IF obscene THEN wordFlagObscene ELSE 0)
    + (IF hasEmptyBeat THEN wordFlagHasEmptyBeat ELSE 0)
    + (IF hasRomanWord THEN wordFlagHasRomanWord ELSE 0)
    + (IF romanWarning THEN wordFlagRomanWarning ELSE 0)

\* PackLineFlags with the bits of isBG and isDuet exchanged.
PackLineFlagsExchanged(isBG, isDuet, ignoreSync, hasTranslatedLyric, hasRomanLyric) ==
  (IF isBG THEN lineFlagIsDuet ELSE 0)
    + (IF isDuet THEN lineFlagIsBG ELSE 0)
    + (IF ignoreSync THEN lineFlagIgnoreSync ELSE 0)
    + (IF hasTranslatedLyric THEN lineFlagHasTranslatedLyric ELSE 0)
    + (IF hasRomanLyric THEN lineFlagHasRomanLyric ELSE 0)

PackLineFlags(isBG, isDuet, ignoreSync, hasTranslatedLyric, hasRomanLyric) ==
  (IF isBG THEN lineFlagIsBG ELSE 0)
    + (IF isDuet THEN lineFlagIsDuet ELSE 0)
    + (IF ignoreSync THEN lineFlagIgnoreSync ELSE 0)
    + (IF hasTranslatedLyric THEN lineFlagHasTranslatedLyric ELSE 0)
    + (IF hasRomanLyric THEN lineFlagHasRomanLyric ELSE 0)

\* The body of the first word loop without the line envelope.
EncodeWord(word, stringPool, lineIndex, wordIndex) ==
  The({
    IF ~ws.ok THEN WordFail(Err(ws.e, lineIndex, wordIndex, "start_time"))
    ELSE IF ~we.ok THEN WordFail(Err(we.e, lineIndex, wordIndex, "end_time"))
    ELSE IF ~textID.ok
      THEN WordFail(Err("missing from string pool", lineIndex, wordIndex, "word"))
    ELSE IF word.RomanWord # EmptyString /\ ~romanID.ok
      THEN WordFail(Err("missing from string pool", lineIndex, wordIndex, "roman_word"))
    ELSE IF ~beat.ok THEN WordFail(Err(beat.e, lineIndex, wordIndex, "empty_beat"))
    ELSE WordOk(encodedWord(ws.v, ClampWordEnd(ws.v, we.v), beat.has, beat.ms,
                            word.RomanWord # EmptyString, textID.v,
                            IF word.RomanWord # EmptyString THEN romanID.v ELSE 0,
                            PackWordFlags(word.Obscene, beat.has,
                                          word.RomanWord # EmptyString, word.RomanWarning))) :
    ws \in {toMilliseconds(word.StartTime)},
    we \in {toMilliseconds(word.EndTime)},
    textID \in {get(stringPool, word.Word)},
    romanID \in {get(stringPool, word.RomanWord)},
    beat \in {EncodeEmptyBeat(word.EmptyBeat)}})

WordsOk(lineStartMS, lineEndMS, encodedWords) ==
  [ok |-> TRUE, err |-> NoErr, lineStartMS |-> lineStartMS,
   lineEndMS |-> lineEndMS, encodedWords |-> encodedWords]

WordsFail(err) ==
  [ok |-> FALSE, err |-> err, lineStartMS |-> 0, lineEndMS |-> 0, encodedWords |-> <<>>]

RECURSIVE EncodeWordLoop(_, _, _, _, _, _, _)
EncodeWordLoop(words, wi, lineStartMS, lineEndMS, encodedWords, stringPool, lineIndex) ==
  IF wi > Len(words) THEN WordsOk(lineStartMS, lineEndMS, encodedWords)
  ELSE The({IF ~r.ok THEN WordsFail(r.err)
            ELSE EncodeWordLoop(words, wi + 1,
                   ExpandLineStart(lineStartMS, r.w.startMS),
                   ExpandLineEnd(lineEndMS, r.w.endMS),
                   Append(encodedWords, r.w), stringPool, lineIndex) :
            r \in {EncodeWord(words[wi], stringPool, lineIndex, wi - 1)}})

\* WordRecord writing the empty beat before the roman word.
WordRecordBeatFirst(word, lineStartMS) ==
  PutUvarint(Wrap(word.startMS - lineStartMS))
    \o PutUvarint(Wrap(word.endMS - word.startMS))
    \o PutUvarint(word.textID)
    \o <<word.wordFlags>>
    \o (IF word.hasEmptyBeat THEN PutUvarint(word.emptyBeatMS) ELSE <<>>)
    \o (IF word.hasRomanWord THEN PutUvarint(word.romanID) ELSE <<>>)

\* One record of the second word loop.
WordRecord(word, lineStartMS) ==
  PutUvarint(Wrap(word.startMS - lineStartMS))
    \o PutUvarint(Wrap(word.endMS - word.startMS))
    \o PutUvarint(word.textID)
    \o <<word.wordFlags>>
    \o (IF word.hasRomanWord THEN PutUvarint(word.romanID) ELSE <<>>)
    \o (IF word.hasEmptyBeat THEN PutUvarint(word.emptyBeatMS) ELSE <<>>)

RECURSIVE WriteWordRecords(_, _, _, _)
WriteWordRecords(encodedWords, wi, lineStartMS, section) ==
  IF wi > Len(encodedWords) THEN section
  ELSE WriteWordRecords(encodedWords, wi + 1, lineStartMS,
                        section \o WordRecord(encodedWords[wi], lineStartMS))

\* What the encoder wrote for one line: the values behind its bytes.
writtenLine(startMS, endMS, lineFlags, words) ==
  [startMS |-> startMS, endMS |-> endMS, lineFlags |-> lineFlags, words |-> words]

LineOk(bytes, written) == [ok |-> TRUE, err |-> NoErr, bytes |-> bytes, written |-> written]

LineFail(err) ==
  [ok |-> FALSE, err |-> err, bytes |-> <<>>, written |-> writtenLine(0, 0, 0, <<>>)]

\* Everything written for a line once its words are encoded.
WriteLine(section, line, lineStartMS, lineEndMS, encodedWords, stringPool, lineIndex) ==
  The({
    IF line.TranslatedLyric # EmptyString /\ ~translatedID.ok
      THEN LineFail(Err("missing from string pool", lineIndex, 0 - 1, "translated_lyric"))
    ELSE IF line.RomanLyric # EmptyString /\ ~romanID.ok
      THEN LineFail(Err("missing from string pool", lineIndex, 0 - 1, "roman_lyric"))
    ELSE LineOk(
      WriteWordRecords(encodedWords, 1, lineStartMS,
        section \o PutUvarint(lineStartMS) \o PutUvarint(lineEndMS) \o <<lineFlags>>
          \o PutUvarint(Len(line.Words))
          \o (IF line.TranslatedLyric # EmptyString THEN PutUvarint(translatedID.v) ELSE <<>>)
          \o (IF line.RomanLyric # EmptyString THEN PutUvarint(romanID.v) ELSE <<>>)),
      writtenLine(lineStartMS, lineEndMS, lineFlags, encodedWords)) :
    translatedID \in {get(stringPool, line.TranslatedLyric)},
    romanID \in {get(stringPool, line.RomanLyric)},
    lineFlags \in {PackLineFlags(line.IsBG, line.IsDuet, line.IgnoreSync,
                                 line.TranslatedLyric # EmptyString,
                                 line.RomanLyric # EmptyString)}})

\* The body of the line loop.
EncodeLine(section, line, stringPool, lineIndex) ==
  The({
    IF ~ls.ok THEN LineFail(Err(ls.e, lineIndex, 0 - 1, "start_time"))
    ELSE IF ~le.ok THEN LineFail(Err(le.e, lineIndex, 0 - 1, "end_time"))
    ELSE The({
      IF ~ws.ok THEN LineFail(ws.err)
      ELSE WriteLine(section, line, ws.lineStartMS,
                     FinalLineEnd(ws.lineStartMS, ws.lineEndMS),
                     ws.encodedWords, stringPool, lineIndex) :
      ws \in {EncodeWordLoop(line.Words, 1, ls.v, le.v, <<>>, stringPool, lineIndex)}}) :
    ls \in {toMilliseconds(line.StartTime)},
    le \in {toMilliseconds(line.EndTime)}})

LinesOk(bytes, written) == [ok |-> TRUE, err |-> NoErr, bytes |-> bytes, written |-> written]

LinesFail(err) == [ok |-> FALSE, err |-> err, bytes |-> <<>>, written |-> <<>>]

RECURSIVE EncodeLineLoop(_, _, _, _, _)
EncodeLineLoop(lines, li, section, written, stringPool) ==
  IF li > Len(lines) THEN LinesOk(section, written)
  ELSE The({IF ~r.ok THEN LinesFail(r.err)
            ELSE EncodeLineLoop(lines, li + 1, r.bytes, Append(written, r.written),
                                stringPool) :
            r \in {EncodeLine(section, lines[li], stringPool, li - 1)}})

encodeLyricDataSection(lines, stringPool) ==
  EncodeLineLoop(lines, 1, writeUvarint(<<>>, Len(lines)), <<>>, stringPool)

(***************************************************************************)
(* EncodeBinary.  The result carries, beside the payload, its sections and *)
(* the values written for each line.                                       *)
(***************************************************************************)
EncFail(err) ==
  [st |-> "error", err |-> err, bytes |-> <<>>, header |-> <<>>, pool |-> <<>>,
   lyric |-> <<>>, written |-> <<>>]

NoEnc == [EncFail(NoErr) EXCEPT !.st = "none"]

EncodeBinary(ttmlLyric) ==
  The({
    The({
      IF ~headerSection.ok THEN EncFail(headerSection.err)
      ELSE IF ~lyricDataSection.ok THEN EncFail(lyricDataSection.err)
      ELSE [st |-> "ok", err |-> NoErr,
            bytes |-> writeUvarint(amlxMagic \o <<amlxVersion, 0>>,
                                   Len(headerSection.bytes))
                        \o headerSection.bytes
                        \o encodeStringPoolSection(stringPool)
                        \o lyricDataSection.bytes,
            header |-> headerSection.bytes, pool |-> stringPool,
            lyric |-> lyricDataSection.bytes, written |-> lyricDataSection.written] :
      headerSection \in {encodeHeaderSection(ttmlLyric.Metadata, stringPool)},
      lyricDataSection \in {encodeLyricDataSection(ttmlLyric.LyricLines, stringPool)}}) :
    stringPool \in {buildStringPool(ttmlLyric)}})

(***************************************************************************)
(* Ids (types.go).  uidCounter is a process-wide counter; newUID adds one  *)
(* and formats the new value in decimal.                                   *)
(***************************************************************************)
RECURSIVE FormatUint(_)
FormatUint(n) ==
  IF n < 10 THEN <<48 + n>> ELSE Append(FormatUint(n \div 10), 48 + (n % 10))

\* newUIDCounter losing the increment.
newUIDCounterStale(counter) == counter

\* atomic.AddUint64(&uidCounter, 1)
newUIDCounter(counter) == Wrap(counter + 1)

newUID(counter) == FormatUint(newUIDCounter(counter))

NewLyricWord(counter) ==
  LyricWord(newUID(counter), Fin(0), Fin(0), EmptyString, FALSE, Fin(0), EmptyString, FALSE)

NewLyricLine(counter) ==
  LyricLine(newUID(counter), <<>>, EmptyString, EmptyString, FALSE, FALSE,
            Fin(0), Fin(0), FALSE)
(***************************************************************************)
(* Decoding.  DecodeBinary is run as a machine over its local state: one   *)
(* step per field read, `pc` naming the next field.  `trace` records, for  *)
(* every field read, its path and the value read.                          *)
(***************************************************************************)
\* The largest element count make() accepts; above it makeslice panics.
maxAlloc == Pow2(WordBits - 2)

MakeSliceOk(count) == count <= maxAlloc

Event(field, line, word, v) == [field |-> field, line |-> line, word |-> word, v |-> v]

decoderStart(binaryData, uid) ==
  [pc |-> "magic", st |-> "run", err |-> NoErr,
   data |-> binaryData, pos |-> 0, headerBytes |-> <<>>, hpos |-> 0,
   stringPool |-> <<>>, stringCount |-> 0,
   metadata |-> <<>>, metadataCount |-> 0, metaIndex |-> 0,
   key |-> EmptyString, values |-> <<>>, valueCount |-> 0,
   lines |-> <<>>, lineCount |-> 0, lineIndex |-> 0,
   lineStartMS |-> 0, lineEndMS |-> 0, lineFlags |-> 0,
   line |-> LyricLine(EmptyString, <<>>, EmptyString, EmptyString, FALSE, FALSE,
                      Fin(0), Fin(0), FALSE),
   wordCount |-> 0, wordIndex |-> 0, deltaStart |-> 0, duration |-> 0,
   textID |-> 0, wordFlags |-> 0,
   word |-> LyricWord(EmptyString, Fin(0), Fin(0), EmptyString, FALSE, Fin(0),
                      EmptyString, FALSE),
   uid |-> uid, trace |-> <<>>]

\* return TTMLLyric{}, err
Fail(s, kind, line, word, field) ==
  [s EXCEPT !.st = "error", !.pc = "done", !.err = Err(kind, line, word, field)]

\* A panic of the runtime: the call does not return.
Panic(s, field) ==
  [s EXCEPT !.st = "panic", !.pc = "done",
            !.err = Err("makeslice: cap out of range", 0 - 1, 0 - 1, field)]

\* A field read from the payload, and one read from the header slice.
Took(s, r, field, line, word) ==
  [s EXCEPT !.pos = r.pos, !.trace = Append(@, Event(field, line, word, r.v))]

TookHeader(s, r, field, line, word) ==
  [s EXCEPT !.hpos = r.pos, !.trace = Append(@, Event(field, line, word, r.v))]

Goto(s, pc) == [s EXCEPT !.pc = pc]

\* MagicMatches comparing the first byte only.
MagicMatchesFirstByte(magic) == magic[1] = amlxMagic[1]

MagicMatches(magic) == magic = amlxMagic

VersionSupported(version) == version = amlxVersion

\* io.ReadFull(reader, magic) and the comparison with amlxMagic.
ReadMagic(s) ==
  IF Len(s.data) < Len(amlxMagic)
    THEN Fail(s, IF Len(s.data) = 0 THEN "EOF" ELSE "unexpected EOF", 0 - 1, 0 - 1, "magic")
  ELSE IF ~MagicMatches(SubSeq(s.data, 1, Len(amlxMagic)))
    THEN Fail(s, "invalid magic", 0 - 1, 0 - 1, "magic")
  ELSE [s EXCEPT !.pos = Len(amlxMagic), !.pc = "version"]

ReadVersion(s) ==
  The({IF ~r.ok THEN Fail(s, r.e, 0 - 1, 0 - 1, "version")
       ELSE IF ~VersionSupported(r.v)
         THEN Fail(Took(s, r, "version", 0 - 1, 0 - 1),
                   "unsupported version", 0 - 1, 0 - 1, "version")
       ELSE Goto(Took(s, r, "version", 0 - 1, 0 - 1), "global_flags") :
       r \in {ReadByte(s.data, s.pos)}})

\* ReadGlobalFlags rejecting a byte that is not zero.
ReadGlobalFlagsStrict(s) ==
  The({IF ~r.ok THEN Fail(s, r.e, 0 - 1, 0 - 1, "global flags")
       ELSE IF r.v # 0
         THEN Fail(Took(s, r, "global_flags", 0 - 1, 0 - 1),
                   "unsupported global flags", 0 - 1, 0 - 1, "global flags")
       ELSE Goto(Took(s, r, "global_flags", 0 - 1, 0 - 1), "header_size") :
       r \in {ReadByte(s.data, s.pos)}})

ReadGlobalFlags(s) ==
  The({IF ~r.ok THEN Fail(s, r.e, 0 - 1, 0 - 1, "global flags")
       ELSE Goto(Took(s, r, "global_flags", 0 - 1, 0 - 1), "header_size") :
       r \in {ReadByte(s.data, s.pos)}})

\* ReadHeaderSize handing the header slice to decodeHeaderSection before
\* the string pool is read.
ReadHeaderSizeEntriesFirst(s) ==
  The({IF ~r.ok THEN Fail(s, r.e, 0 - 1, 0 - 1, "header size")
       ELSE The({IF ~raw.ok THEN Fail(Took(s, r, "header_size", 0 - 1, 0 - 1),
                                      raw.e, 0 - 1, 0 - 1, "header section")
                 ELSE [Took(s, r, "header_size", 0 - 1, 0 - 1) EXCEPT
                         !.headerBytes = raw.v, !.pos = raw.pos, !.pc = "metadata_count"] :
                 raw \in {readBytes(s.data, r.pos, r.v)}}) :
       r \in {readUvarint(s.data, s.pos)}})

ReadHeaderSize(s) ==
  The({IF ~r.ok THEN Fail(s, r.e, 0 - 1, 0 - 1, "header size")
       ELSE The({IF ~raw.ok THEN Fail(Took(s, r, "header_size", 0 - 1, 0 - 1),
                                      raw.e, 0 - 1, 0 - 1, "header section")
                 ELSE [Took(s, r, "header_size", 0 - 1, 0 - 1) EXCEPT
                         !.headerBytes = raw.v, !.pos = raw.pos, !.pc = "string_count"] :
                 raw \in {readBytes(s.data, r.pos, r.v)}}) :
       r \in {readUvarint(s.data, s.pos)}})

(***************************************************************************)
(* decodeStringPoolSection.                                                *)
(***************************************************************************)
ReadStringCount(s) ==
  The({IF ~r.ok THEN Fail(s, r.e, 0 - 1, 0 - 1, "string_count")
       ELSE IF ~toInt(r.v).ok
         THEN Fail(Took(s, r, "string_count", 0 - 1, 0 - 1),
                   "is too large", 0 - 1, 0 - 1, "string_count")
       ELSE IF ~MakeSliceOk(r.v)
         THEN Panic(Took(s, r, "string_count", 0 - 1, 0 - 1), "string_count")
       ELSE [Took(s, r, "string_count", 0 - 1, 0 - 1) EXCEPT
               !.stringCount = r.v,
               !.pc = IF r.v = 0 THEN "metadata_count" ELSE "string"] :
       r \in {readUvarint(s.data, s.pos)}})

ReadString(s) ==
  The({IF ~r.ok THEN Fail(s, r.e, Len(s.stringPool), 0 - 1, "string.length")
       ELSE The({IF ~raw.ok
                   THEN Fail(Took(s, r, "string.length", Len(s.stringPool), 0 - 1),
                             raw.e, Len(s.stringPool), 0 - 1, "string.bytes")
                 ELSE [Took(s, r, "string.length", Len(s.stringPool), 0 - 1) EXCEPT
                         !.stringPool = Append(@, raw.v), !.pos = raw.pos,
                         !.pc = IF Len(s.stringPool) + 1 < s.stringCount
                                  THEN "string" ELSE "metadata_count"] :
                 raw \in {readBytes(s.data, r.pos, r.v)}}) :
       r \in {readUvarint(s.data, s.pos)}})
(***************************************************************************)
(* decodeHeaderSection: a second reader, over the header slice.            *)
(***************************************************************************)
\* HeaderHasTrailingBytes letting one byte through.
HeaderHasTrailingBytesOverOne(headerLeft) == headerLeft > 1

\* reader.Len() != 0 once the announced entries are decoded.
HeaderHasTrailingBytes(headerLeft) == headerLeft # 0

\* The end of the entry loop: the trailing-bytes check, then on to the lines.
EndHeader(s) ==
  The({IF HeaderHasTrailingBytes(left)
         THEN Fail([s EXCEPT !.trace = Append(@, Event("header_left", 0 - 1, 0 - 1, left))],
                   "header section has unexpected trailing bytes", 0 - 1, 0 - 1, "header")
       ELSE [s EXCEPT !.trace = Append(@, Event("header_left", 0 - 1, 0 - 1, left)),
                      !.pc = "line_count"] :
       left \in {Len(s.headerBytes) - s.hpos}})

ReadMetadataCount(s) ==
  The({IF ~r.ok THEN Fail(s, r.e, 0 - 1, 0 - 1, "metadata_count")
       ELSE IF ~toInt(r.v).ok
         THEN Fail(TookHeader(s, r, "metadata_count", 0 - 1, 0 - 1),
                   "is too large", 0 - 1, 0 - 1, "metadata_count")
       ELSE IF ~MakeSliceOk(r.v)
         THEN Panic(TookHeader(s, r, "metadata_count", 0 - 1, 0 - 1), "metadata_count")
       ELSE [TookHeader(s, r, "metadata_count", 0 - 1, 0 - 1) EXCEPT
               !.metadataCount = r.v, !.metaIndex = 0,
               !.pc = IF r.v = 0 THEN "header_end" ELSE "key_string_id"] :
       r \in {readUvarint(s.headerBytes, s.hpos)}})

ReadKeyStringID(s) ==
  The({IF ~r.ok THEN Fail(s, r.e, s.metaIndex, 0 - 1, "metadata.key_string_id")
       ELSE The({IF ~key.ok
                   THEN Fail(TookHeader(s, r, "metadata.key_string_id", s.metaIndex, 0 - 1),
                             "out of bounds", s.metaIndex, 0 - 1, "metadata.key_string_id")
                 ELSE [TookHeader(s, r, "metadata.key_string_id", s.metaIndex, 0 - 1) EXCEPT
                         !.key = key.v, !.pc = "value_count"] :
                 key \in {stringByID(s.stringPool, r.v)}}) :
       r \in {readUvarint(s.headerBytes, s.hpos)}})

ReadValueCount(s) ==
  The({IF ~r.ok THEN Fail(s, r.e, s.metaIndex, 0 - 1, "metadata.value_count")
       ELSE IF ~toInt(r.v).ok
         THEN Fail(TookHeader(s, r, "metadata.value_count", s.metaIndex, 0 - 1),
                   "is too large", s.metaIndex, 0 - 1, "metadata.value_count")
       ELSE IF ~MakeSliceOk(r.v)
         THEN Panic(TookHeader(s, r, "metadata.value_count", s.metaIndex, 0 - 1),
                    "metadata.value_count")
       ELSE [TookHeader(s, r, "metadata.value_count", s.metaIndex, 0 - 1) EXCEPT
               !.valueCount = r.v, !.values = <<>>,
               !.pc = IF r.v = 0 THEN "error_flag" ELSE "value_string_id"] :
       r \in {readUvarint(s.headerBytes, s.hpos)}})

ReadValueStringID(s) ==
  The({IF ~r.ok
         THEN Fail(s, r.e, s.metaIndex, Len(s.values), "metadata.value_string_id")
       ELSE The({IF ~value.ok
                   THEN Fail(TookHeader(s, r, "metadata.value_string_id",
                                        s.metaIndex, Len(s.values)),
                             "out of bounds", s.metaIndex, Len(s.values),
                             "metadata.value_string_id")
                 ELSE [TookHeader(s, r, "metadata.value_string_id",
                                  s.metaIndex, Len(s.values)) EXCEPT
                         !.values = Append(@, value.v),
                         !.pc = IF Len(s.values) + 1 < s.valueCount
                                  THEN "value_string_id" ELSE "error_flag"] :
                 value \in {stringByID(s.stringPool, r.v)}}) :
       r \in {readUvarint(s.headerBytes, s.hpos)}})

\* AppendMetadata folding an entry into an earlier entry of the same key.
AppendMetadataMergingKeys(metadata, entry) ==
  IF \E i \in 1..Len(metadata) : metadata[i].Key = entry.Key
    THEN [i \in 1..Len(metadata) |->
            IF metadata[i].Key = entry.Key
              THEN [metadata[i] EXCEPT !.Value = @ \o entry.Value]
              ELSE metadata[i]]
    ELSE Append(metadata, entry)

\* metadata = append(metadata, TTMLMetadata{...})
AppendMetadata(metadata, entry) == Append(metadata, entry)

ReadErrorFlag(s) ==
  The({IF ~r.ok THEN Fail(s, r.e, s.metaIndex, 0 - 1, "metadata.error_flag")
       ELSE [TookHeader(s, r, "metadata.error_flag", s.metaIndex, 0 - 1) EXCEPT
               !.metadata = AppendMetadata(@, TTMLMetadata(s.key, s.values, r.v # 0)),
               !.metaIndex = @ + 1,
               !.pc = IF s.metaIndex + 1 < s.metadataCount
                        THEN "key_string_id" ELSE "header_end"] :
       r \in {ReadByte(s.headerBytes, s.hpos)}})
(***************************************************************************)
(* decodeLyricDataSection: the line record.                                *)
(***************************************************************************)
\* lineFlags &^ lineFlagMask != 0 and wordFlags &^ wordFlagMask != 0
\* ReservedLineFlags with bit 5 taken for a defined flag.
ReservedLineFlagsFromBit6(lineFlags) == AndNot(lineFlags, 2 * lineFlagMask + 1) # 0

ReservedLineFlags(lineFlags) == AndNot(lineFlags, lineFlagMask) # 0

ReservedWordFlags(wordFlags) == AndNot(wordFlags, wordFlagMask) # 0

\* LineTimingRegression letting an end one below the start through.
LineTimingRegressionByTwo(lineStartMS, lineEndMS) == lineEndMS + 1 < lineStartMS

\* lineEndMS < lineStartMS
LineTimingRegression(lineStartMS, lineEndMS) == lineEndMS < lineStartMS

ReadLineCount(s) ==
  The({IF ~r.ok THEN Fail(s, r.e, 0 - 1, 0 - 1, "line_count")
       ELSE IF ~toInt(r.v).ok
         THEN Fail(Took(s, r, "line_count", 0 - 1, 0 - 1),
                   "is too large", 0 - 1, 0 - 1, "line_count")
       ELSE IF ~MakeSliceOk(r.v)
         THEN Panic(Took(s, r, "line_count", 0 - 1, 0 - 1), "line_count")
       ELSE [Took(s, r, "line_count", 0 - 1, 0 - 1) EXCEPT
               !.lineCount = r.v, !.lineIndex = 0, !.pc = "line_loop"] :
       r \in {readUvarint(s.data, s.pos)}})

\* LineLoop refusing bytes after the last line.
LineLoopToTheEnd(s) ==
  IF s.lineIndex < s.lineCount THEN Goto(s, "line_start_time")
  ELSE IF s.pos < Len(s.data)
    THEN Fail(s, "has trailing bytes", 0 - 1, 0 - 1, "lyric data")
  ELSE [s EXCEPT !.st = "ok", !.pc = "done"]

\* The head of the line loop; past the last line DecodeBinary returns.
LineLoop(s) ==
  IF s.lineIndex < s.lineCount THEN Goto(s, "line_start_time")
  ELSE [s EXCEPT !.st = "ok", !.pc = "done"]

ReadLineStart(s) ==
  The({IF ~r.ok THEN Fail(s, r.e, s.lineIndex, 0 - 1, "line.start_time")
       ELSE IF r.v > maxBinaryTimeMS
         THEN Fail(Took(s, r, "line.start_time", s.lineIndex, 0 - 1),
                   "overflow", s.lineIndex, 0 - 1, "line.start_time")
       ELSE [Took(s, r, "line.start_time", s.lineIndex, 0 - 1) EXCEPT
               !.lineStartMS = r.v, !.pc = "line_end_time"] :
       r \in {readUvarint(s.data, s.pos)}})

ReadLineEnd(s) ==
  The({IF ~r.ok THEN Fail(s, r.e, s.lineIndex, 0 - 1, "line.end_time")
       ELSE IF r.v > maxBinaryTimeMS
         THEN Fail(Took(s, r, "line.end_time", s.lineIndex, 0 - 1),
                   "overflow", s.lineIndex, 0 - 1, "line.end_time")
       ELSE IF LineTimingRegression(s.lineStartMS, r.v)
         THEN Fail(Took(s, r, "line.end_time", s.lineIndex, 0 - 1),
                   "end_time < start_time", s.lineIndex, 0 - 1, "line")
       ELSE [Took(s, r, "line.end_time", s.lineIndex, 0 - 1) EXCEPT
               !.lineEndMS = r.v, !.pc = "line_flags"] :
       r \in {readUvarint(s.data, s.pos)}})

ReadLineFlags(s) ==
  The({IF ~r.ok THEN Fail(s, r.e, s.lineIndex, 0 - 1, "line.line_flags")
       ELSE IF ReservedLineFlags(r.v)
         THEN Fail(Took(s, r, "line.line_flags", s.lineIndex, 0 - 1),
                   "reserved line flags are set", s.lineIndex, 0 - 1, "line")
       ELSE [Took(s, r, "line.line_flags", s.lineIndex, 0 - 1) EXCEPT
               !.lineFlags = r.v, !.pc = "word_count"] :
       r \in {ReadByte(s.data, s.pos)}})

\* word_count, then line := NewLyricLine() and the fields taken from the flags.
ReadWordCount(s) ==
  The({IF ~r.ok THEN Fail(s, r.e, s.lineIndex, 0 - 1, "line.word_count")
       ELSE IF ~toInt(r.v).ok
         THEN Fail(Took(s, r, "line.word_count", s.lineIndex, 0 - 1),
                   "is too large", s.lineIndex, 0 - 1, "line.word_count")
       ELSE IF ~MakeSliceOk(r.v)
         THEN Panic([Took(s, r, "line.word_count", s.lineIndex, 0 - 1) EXCEPT
                       !.uid = newUIDCounter(s.uid)], "line.word_count")
       ELSE [Took(s, r, "line.word_count", s.lineIndex, 0 - 1) EXCEPT
               !.wordCount = r.v, !.wordIndex = 0,
               !.uid = newUIDCounter(s.uid),
               !.line = [NewLyricLine(s.uid) EXCEPT
                           !.StartTime = Float64(s.lineStartMS),
                           !.EndTime = Float64(s.lineEndMS),
                           !.IsBG = HasFlag(s.lineFlags, lineFlagIsBG),
                           !.IsDuet = HasFlag(s.lineFlags, lineFlagIsDuet),
                           !.IgnoreSync = HasFlag(s.lineFlags, lineFlagIgnoreSync)],
               !.pc = "translated_string_id"] :
       r \in {readUvarint(s.data, s.pos)}})

ReadTranslatedStringID(s) ==
  IF ~HasFlag(s.lineFlags, lineFlagHasTranslatedLyric) THEN Goto(s, "roman_string_id")
  ELSE The({
    IF ~r.ok THEN Fail(s, r.e, s.lineIndex, 0 - 1, "line.translated_string_id")
    ELSE The({IF ~translated.ok
                THEN Fail(Took(s, r, "line.translated_string_id", s.lineIndex, 0 - 1),
                          "out of bounds", s.lineIndex, 0 - 1, "line.translated_string_id")
              ELSE [Took(s, r, "line.translated_string_id", s.lineIndex, 0 - 1) EXCEPT
                      !.line.TranslatedLyric = translated.v, !.pc = "roman_string_id"] :
              translated \in {stringByID(s.stringPool, r.v)}}) :
    r \in {readUvarint(s.data, s.pos)}})

ReadRomanStringID(s) ==
  IF ~HasFlag(s.lineFlags, lineFlagHasRomanLyric) THEN Goto(s, "word_loop")
  ELSE The({
    IF ~r.ok THEN Fail(s, r.e, s.lineIndex, 0 - 1, "line.roman_string_id")
    ELSE The({IF ~roman.ok
                THEN Fail(Took(s, r, "line.roman_string_id", s.lineIndex, 0 - 1),
                          "out of bounds", s.lineIndex, 0 - 1, "line.roman_string_id")
              ELSE [Took(s, r, "line.roman_string_id", s.lineIndex, 0 - 1) EXCEPT
                      !.line.RomanLyric = roman.v, !.pc = "word_loop"] :
              roman \in {stringByID(s.stringPool, r.v)}}) :
    r \in {readUvarint(s.data, s.pos)}})

\* The head of the word loop; past the last word the line is appended.
WordLoop(s) ==
  IF s.wordIndex < s.wordCount THEN Goto(s, "delta_start_time")
  ELSE [s EXCEPT !.lines = Append(@, s.line), !.lineIndex = @ + 1, !.pc = "line_loop"]
(***************************************************************************)
(* decodeLyricDataSection: the word record.                                *)
(***************************************************************************)
ReadDeltaStart(s) ==
  The({IF ~r.ok THEN Fail(s, r.e, s.lineIndex, s.wordIndex, "word.delta_start_time")
       ELSE [Took(s, r, "word.delta_start_time", s.lineIndex, s.wordIndex) EXCEPT
               !.deltaStart = r.v, !.pc = "duration"] :
       r \in {readUvarint(s.data, s.pos)}})

ReadDuration(s) ==
  The({IF ~r.ok THEN Fail(s, r.e, s.lineIndex, s.wordIndex, "word.duration")
       ELSE [Took(s, r, "word.duration", s.lineIndex, s.wordIndex) EXCEPT
               !.duration = r.v, !.pc = "text_string_id"] :
       r \in {readUvarint(s.data, s.pos)}})

ReadTextStringID(s) ==
  The({IF ~r.ok THEN Fail(s, r.e, s.lineIndex, s.wordIndex, "word.text_string_id")
       ELSE [Took(s, r, "word.text_string_id", s.lineIndex, s.wordIndex) EXCEPT
               !.textID = r.v, !.pc = "word_flags"] :
       r \in {readUvarint(s.data, s.pos)}})

ReadWordFlags(s) ==
  The({IF ~r.ok THEN Fail(s, r.e, s.lineIndex, s.wordIndex, "word.word_flags")
       ELSE IF ReservedWordFlags(r.v)
         THEN Fail(Took(s, r, "word.word_flags", s.lineIndex, s.wordIndex),
                   "reserved word flags are set", s.lineIndex, s.wordIndex, "word")
       ELSE [Took(s, r, "word.word_flags", s.lineIndex, s.wordIndex) EXCEPT
               !.wordFlags = r.v, !.pc = "word_times"] :
       r \in {ReadByte(s.data, s.pos)}})

\* MakeWord taking delta_start for the start of the word.
MakeWordAbsoluteStart(s) ==
  The({
    IF ~wordStartMS.ok
      THEN Fail(s, "overflow", s.lineIndex, s.wordIndex, "word.start_time")
    ELSE The({
      IF ~wordEndMS.ok
        THEN Fail(s, "overflow", s.lineIndex, s.wordIndex, "word.end_time")
      ELSE IF ~wordText.ok
        THEN Fail(s, "out of bounds", s.lineIndex, s.wordIndex, "word.text_string_id")
      ELSE [s EXCEPT
              !.uid = newUIDCounter(s.uid),
              !.word = [NewLyricWord(s.uid) EXCEPT
                          !.StartTime = Float64(wordStartMS.v),
                          !.EndTime = Float64(wordEndMS.v),
                          !.Word = wordText.v,
                          !.Obscene = HasFlag(s.wordFlags, wordFlagObscene),
                          !.RomanWarning = HasFlag(s.wordFlags, wordFlagRomanWarning)],
              !.pc = "word_roman_string_id"] :
      wordEndMS \in {safeAddMillis(wordStartMS.v, s.duration)}}) :
    wordStartMS \in {safeAddMillis(0, s.deltaStart)},
    wordText \in {stringByID(s.stringPool, s.textID)}})

\* The two safeAddMillis, the word text, then word := NewLyricWord().
MakeWord(s) ==
  The({
    IF ~wordStartMS.ok
      THEN Fail(s, "overflow", s.lineIndex, s.wordIndex, "word.start_time")
    ELSE The({
      IF ~wordEndMS.ok
        THEN Fail(s, "overflow", s.lineIndex, s.wordIndex, "word.end_time")
      ELSE IF ~wordText.ok
        THEN Fail(s, "out of bounds", s.lineIndex, s.wordIndex, "word.text_string_id")
      ELSE [s EXCEPT
              !.uid = newUIDCounter(s.uid),
              !.word = [NewLyricWord(s.uid) EXCEPT
                          !.StartTime = Float64(wordStartMS.v),
                          !.EndTime = Float64(wordEndMS.v),
                          !.Word = wordText.v,
                          !.Obscene = HasFlag(s.wordFlags, wordFlagObscene),
                          !.RomanWarning = HasFlag(s.wordFlags, wordFlagRomanWarning)],
              !.pc = "word_roman_string_id"] :
      wordEndMS \in {safeAddMillis(wordStartMS.v, s.duration)}}) :
    wordStartMS \in {safeAddMillis(s.lineStartMS, s.deltaStart)},
    wordText \in {stringByID(s.stringPool, s.textID)}})

ReadWordRomanStringID(s) ==
  IF ~HasFlag(s.wordFlags, wordFlagHasRomanWord) THEN Goto(s, "empty_beat_ms")
  ELSE The({
    IF ~r.ok THEN Fail(s, r.e, s.lineIndex, s.wordIndex, "word.roman_string_id")
    ELSE The({IF ~romanWord.ok
                THEN Fail(Took(s, r, "word.roman_string_id", s.lineIndex, s.wordIndex),
                          "out of bounds", s.lineIndex, s.wordIndex, "word.roman_string_id")
              ELSE [Took(s, r, "word.roman_string_id", s.lineIndex, s.wordIndex) EXCEPT
                      !.word.RomanWord = romanWord.v, !.pc = "empty_beat_ms"] :
              romanWord \in {stringByID(s.stringPool, r.v)}}) :
    r \in {readUvarint(s.data, s.pos)}})

ReadEmptyBeat(s) ==
  IF ~HasFlag(s.wordFlags, wordFlagHasEmptyBeat) THEN Goto(s, "append_word")
  ELSE The({
    IF ~r.ok THEN Fail(s, r.e, s.lineIndex, s.wordIndex, "word.empty_beat_ms")
    ELSE IF r.v > maxBinaryTimeMS
      THEN Fail(Took(s, r, "word.empty_beat_ms", s.lineIndex, s.wordIndex),
                "overflow", s.lineIndex, s.wordIndex, "word.empty_beat_ms")
    ELSE [Took(s, r, "word.empty_beat_ms", s.lineIndex, s.wordIndex) EXCEPT
            !.word.EmptyBeat = Float64(r.v), !.pc = "append_word"] :
    r \in {readUvarint(s.data, s.pos)}})

\* line.Words = append(line.Words, word)
\* AppendWord putting the word in front of the words of the line.
AppendWordInFront(s) ==
  [s EXCEPT !.line.Words = <<s.word>> \o @, !.wordIndex = @ + 1, !.pc = "word_loop"]

AppendWord(s) ==
  [s EXCEPT !.line.Words = Append(@, s.word), !.wordIndex = @ + 1, !.pc = "word_loop"]

(***************************************************************************)
(* DecodeBinary: the steps in program order, run to the return.            *)
(***************************************************************************)
DecodeStep(s) ==
  CASE s.pc = "magic" -> ReadMagic(s)
    [] s.pc = "version" -> ReadVersion(s)
    [] s.pc = "global_flags" -> ReadGlobalFlags(s)
    [] s.pc = "header_size" -> ReadHeaderSize(s)
    [] s.pc = "string_count" -> ReadStringCount(s)
    [] s.pc = "string" -> ReadString(s)
    [] s.pc = "metadata_count" -> ReadMetadataCount(s)
    [] s.pc = "key_string_id" -> ReadKeyStringID(s)
    [] s.pc = "value_count" -> ReadValueCount(s)
    [] s.pc = "value_string_id" -> ReadValueStringID(s)
    [] s.pc = "error_flag" -> ReadErrorFlag(s)
    [] s.pc = "header_end" -> EndHeader(s)
    [] s.pc = "line_count" -> ReadLineCount(s)
    [] s.pc = "line_loop" -> LineLoop(s)
    [] s.pc = "line_start_time" -> ReadLineStart(s)
    [] s.pc = "line_end_time" -> ReadLineEnd(s)
    [] s.pc = "line_flags" -> ReadLineFlags(s)
    [] s.pc = "word_count" -> ReadWordCount(s)
    [] s.pc = "translated_string_id" -> ReadTranslatedStringID(s)
    [] s.pc = "roman_string_id" -> ReadRomanStringID(s)
    [] s.pc = "word_loop" -> WordLoop(s)
    [] s.pc = "delta_start_time" -> ReadDeltaStart(s)
    [] s.pc = "duration" -> ReadDuration(s)
    [] s.pc = "text_string_id" -> ReadTextStringID(s)
    [] s.pc = "word_flags" -> ReadWordFlags(s)
    [] s.pc = "word_times" -> MakeWord(s)
    [] s.pc = "word_roman_string_id" -> ReadWordRomanStringID(s)
    [] s.pc = "empty_beat_ms" -> ReadEmptyBeat(s)
    [] s.pc = "append_word" -> AppendWord(s)

RECURSIVE RunDecoder(_)
RunDecoder(s) == IF s.pc = "done" THEN s ELSE RunDecoder(DecodeStep(s))

\* What a call of DecodeBinary leaves: how it ended, the error, the document
\* returned (TTMLLyric{} with an error), the uid counter, what it read, and
\* how many bytes of the payload its reader consumed.
Dec(st, err, doc, uid, stringPool, trace, read) ==
  [st |-> st, err |-> err, doc |-> doc, uid |-> uid, stringPool |-> stringPool,
   trace |-> trace, read |-> read]

NoDec == Dec("none", NoErr, EmptyLyric, 0, <<>>, <<>>, 0)

\* ReturnedDocument handing out what was decoded before the error.
ReturnedDocumentPartial(s) == TTMLLyric(s.metadata, s.lines)

\* return TTMLLyric{}, err on every error; the metadata and the lines at the end.
ReturnedDocument(s) ==
  IF s.st = "ok" THEN TTMLLyric(s.metadata, s.lines) ELSE EmptyLyric

DecodeBinary(binaryData, uid) ==
  The({Dec(s.st, s.err, ReturnedDocument(s),
           s.uid, s.stringPool, s.trace, s.pos) :
       s \in {RunDecoder(decoderStart(binaryData, uid))}})
(***************************************************************************)
(* Input documents.  Times are given in quarter milliseconds.              *)
(***************************************************************************)
SeqsUpTo(S, n) == UNION {[1..k -> S] : k \in 0..n}

StrA == <<97>>

StrB == <<98>>

StrAB == <<97, 98>>

\* Plain words and lines, used where only the timing varies.
PlainWord(start, end) ==
  LyricWord(EmptyString, start, end, StrA, FALSE, Fin(0), EmptyString, FALSE)

PlainLine(start, end, words) ==
  LyricLine(EmptyString, words, EmptyString, EmptyString, FALSE, FALSE, start, end, FALSE)

\* Family 1, timing: one line, its envelope and its words' times vary
\* (rounding up and down, words before, inside and after the line,
\* words and lines that end before they start).
LineStartTimes == {Fin(4), Fin(10)}

LineEndTimes == {Fin(1), Fin(8), Fin(16)}

WordStartTimes == {Fin(1), Fin(6), Fin(20)}

WordEndTimes == {Fin(4), Fin(10), Fin(24)}

TimingWords == {PlainWord(s, e) : s \in WordStartTimes, e \in WordEndTimes}

TimingDocs ==
  {TTMLLyric(<<>>, <<PlainLine(ls, le, ws)>>) :
     ls \in LineStartTimes, le \in LineEndTimes, ws \in SeqsUpTo(TimingWords, MaxWords)}

\* Family 2, extremes: one line with one word, one time or the empty beat
\* being non-finite, negative, fractional or at the time ceiling.
CeilingFloat == Fin(4 * RoundToFloat(maxBinaryTimeMS))

BelowCeilingFloat == Fin(4 * (RoundToFloat(maxBinaryTimeMS) - Pow2(WordBits - 1 - MantBits)))

AboveCeilingFloat == Fin(4 * (RoundToFloat(maxBinaryTimeMS) + Pow2(WordBits - MantBits)))

ExtremeFloats ==
  {NaN, PosInf, NegInf, Fin(0 - 1), Fin(0 - 8), Fin(0), Fin(1), Fin(2), Fin(8),
   BelowCeilingFloat, CeilingFloat, AboveCeilingFloat}

ExtremeDocs ==
  {TTMLLyric(<<>>, <<PlainLine(x, Fin(8), <<PlainWord(Fin(4), Fin(8))>>)>>) :
     x \in ExtremeFloats}
  \cup {TTMLLyric(<<>>, <<PlainLine(Fin(4), x, <<PlainWord(Fin(4), Fin(8))>>)>>) :
     x \in ExtremeFloats}
  \cup {TTMLLyric(<<>>, <<PlainLine(Fin(4), Fin(8), <<PlainWord(x, Fin(8))>>)>>) :
     x \in ExtremeFloats}
  \cup {TTMLLyric(<<>>, <<PlainLine(Fin(4), Fin(8), <<PlainWord(Fin(4), x)>>)>>) :
     x \in ExtremeFloats}
  \cup {TTMLLyric(<<>>,
          <<PlainLine(Fin(4), Fin(8),
              <<[PlainWord(Fin(4), Fin(8)) EXCEPT !.EmptyBeat = x]>>)>>) :
     x \in ExtremeFloats}
  \cup {TTMLLyric(<<TTMLMetadata(StrB, <<StrA>>, TRUE)>>,
                  <<PlainLine(Fin(4), x, <<PlainWord(Fin(4), Fin(8))>>)>>) :
     x \in ExtremeFloats}

\* Family 3, structure: metadata entries, strings, flags and ids vary.
MetaEntries ==
  {TTMLMetadata(StrA, <<>>, FALSE), TTMLMetadata(StrA, <<StrB, StrA, StrB>>, TRUE),
   TTMLMetadata(StrB, <<StrAB>>, FALSE), TTMLMetadata(EmptyString, <<StrB, StrB>>, FALSE)}

ShapeWords ==
  {LyricWord(StrA, Fin(4), Fin(8), StrA, FALSE, Fin(0), EmptyString, FALSE),
   LyricWord(EmptyString, Fin(8), Fin(12), StrB, TRUE, Fin(8), StrA, TRUE),
   LyricWord(StrB, Fin(4), Fin(12), EmptyString, FALSE, Fin(0), StrAB, FALSE)}

ShapeLines ==
  {LyricLine(StrA, <<>>, EmptyString, EmptyString, FALSE, FALSE, Fin(4), Fin(12), FALSE),
   LyricLine(StrB, <<>>, StrB, StrA, TRUE, FALSE, Fin(0), Fin(4), TRUE),
   LyricLine(EmptyString, <<PlainWord(Fin(4), Fin(8))>>, StrAB, EmptyString,
             FALSE, TRUE, Fin(4), Fin(12), FALSE),
   LyricLine(StrAB, <<[PlainWord(Fin(8), Fin(12)) EXCEPT !.ID = StrB]>>, EmptyString, StrB,
             TRUE, TRUE, Fin(4), Fin(12), TRUE)}

WordyLines ==
  {LyricLine(EmptyString, ws, StrAB, EmptyString, FALSE, TRUE, Fin(4), Fin(12), FALSE) :
     ws \in SeqsUpTo(ShapeWords, MaxWords)}

FixedMeta == <<TTMLMetadata(StrB, <<StrA>>, FALSE)>>

FixedLines ==
  <<LyricLine(StrA, <<PlainWord(Fin(4), Fin(8))>>, StrB, EmptyString, FALSE, FALSE,
              Fin(4), Fin(8), FALSE)>>

StructureDocs ==
  {TTMLLyric(m, l) : m \in SeqsUpTo(MetaEntries, MaxMeta), l \in {<<>>, FixedLines}}
  \cup {TTMLLyric(m, l) : m \in {<<>>, FixedMeta}, l \in SeqsUpTo(ShapeLines, MaxLines)}
  \cup {TTMLLyric(m, <<l>>) : m \in {<<>>, FixedMeta}, l \in WordyLines}

\* Family 5, faults: two lines of one word; one or two of the ten times and
\* empty beats are not a number, negative but rounding to 0, or above the
\* ceiling.
FaultValues == {NaN, Fin(0 - 1), AboveCeilingFloat}

SoundValues ==
  <<Fin(4), Fin(8), Fin(4), Fin(8), Fin(0), Fin(8), Fin(12), Fin(8), Fin(12), Fin(0)>>

FaultyDoc(v) ==
  TTMLLyric(<<>>,
    [l \in 1..2 |->
       PlainLine(v[5 * l - 4], v[5 * l - 3],
                 <<[PlainWord(v[5 * l - 2], v[5 * l - 1]) EXCEPT !.EmptyBeat = v[5 * l]]>>)])

FaultyDocs ==
  {FaultyDoc([k \in 1..Len(SoundValues) |->
                IF k = a THEN x ELSE IF k = b THEN y ELSE SoundValues[k]]) :
     a \in 1..Len(SoundValues), b \in 1..Len(SoundValues),
     x \in FaultValues, y \in FaultValues}

\* Family 4: the documents whose payload the channel may corrupt.
HostileDocs ==
  {EmptyLyric,
   TTMLLyric(<<TTMLMetadata(StrA, <<StrB>>, FALSE)>>,
             <<LyricLine(EmptyString,
                 <<LyricWord(EmptyString, Fin(8), Fin(12), StrB, FALSE, Fin(8), StrA, FALSE)>>,
                 StrA, StrB, FALSE, FALSE, Fin(4), Fin(12), FALSE)>>),
   TTMLLyric(<<>>,
             <<PlainLine(Fin(4), Fin(8), <<PlainWord(Fin(4), Fin(8))>>),
               PlainLine(Fin(8), Fin(12), <<PlainWord(Fin(8), Fin(12))>>)>>)}

\* The bytes a corrupted position may take, and how many corruptions a
\* payload may suffer.
TamperBytes == {0, 2, 16, 32, 64, 127, 128}

Cases ==
  {[doc |-> d, budget |-> 0] :
     d \in TimingDocs \cup ExtremeDocs \cup StructureDocs \cup FaultyDocs}
  \cup {[doc |-> d, budget |-> MaxTamper] : d \in HostileDocs}

(***************************************************************************)
(* The state machine: a caller encodes a document, the payload travels     *)
(* (and may be corrupted), a caller decodes it and encodes the result      *)
(* again.                                                                  *)
(***************************************************************************)
VARIABLES input, encoded, wire, tamperLeft, decoded, reencoded, uidCounter, pc,
          calls, minted, bridge, adding

vars == <<input, encoded, wire, tamperLeft, decoded, reencoded, uidCounter, pc,
          calls, minted, bridge, adding>>

\* The state of the callers that work one after the other, and that of the
\* DecodeBinary calls that run at the same time.
sequentialVars == <<input, encoded, wire, tamperLeft, decoded, reencoded, pc>>

concurrentVars == <<calls, minted>>

\* The state of the caller that takes a markup text through the bridges:
\* the text, the payload TTMLToBinary made of it, the document DecodeBinary
\* read, the text BinaryToTTML wrote and the document ParseLyric read from
\* that text.
bridgeVars == <<bridge>>

NoBridge ==
  [pc |-> "none", ttmlText |-> <<>>, binaryData |-> <<>>, decodedLyric |-> EmptyLyric,
   recoveredTTML |-> <<>>, parsedRecovered |-> EmptyLyric]

\* The state of a call of safeAddMillis: its arguments and what it returned.
arithVars == <<adding>>

NoAdding == [pc |-> "none", base |-> 0, delta |-> 0, ok |-> FALSE, v |-> 0]

Init ==
  /\ \E c \in Cases : input = c.doc /\ tamperLeft = c.budget
  /\ encoded = NoEnc
  /\ wire = <<>>
  /\ decoded = NoDec
  /\ reencoded = NoEnc
  /\ uidCounter = 0
  /\ pc = "start"
  /\ calls = <<>>
  /\ minted = <<>>
  /\ bridge = NoBridge
  /\ adding = NoAdding

\* EncodeBinary(input).
Encode ==
  /\ pc = "start"
  /\ encoded' = EncodeBinary(input)
  /\ wire' = encoded'.bytes
  /\ pc' = IF encoded'.st = "ok" THEN "encoded" ELSE "failed"
  /\ UNCHANGED <<input, tamperLeft, decoded, reencoded, uidCounter>>
  /\ UNCHANGED concurrentVars
  /\ UNCHANGED bridgeVars
  /\ UNCHANGED arithVars

\* The channel overwrites one byte of the payload.
TamperSet ==
  /\ pc = "encoded"
  /\ tamperLeft > 0
  /\ \E i \in 1..Len(wire), b \in TamperBytes :
       /\ wire[i] # b
       /\ wire' = [wire EXCEPT ![i] = b]
  /\ tamperLeft' = tamperLeft - 1
  /\ UNCHANGED <<input, encoded, decoded, reencoded, uidCounter, pc>>
  /\ UNCHANGED concurrentVars
  /\ UNCHANGED bridgeVars
  /\ UNCHANGED arithVars

\* The channel cuts the payload short.
TamperTruncate ==
  /\ pc = "encoded"
  /\ tamperLeft > 0
  /\ \E n \in 0..(Len(wire) - 1) : wire' = SubSeq(wire, 1, n)
  /\ tamperLeft' = tamperLeft - 1
  /\ UNCHANGED <<input, encoded, decoded, reencoded, uidCounter, pc>>
  /\ UNCHANGED concurrentVars
  /\ UNCHANGED bridgeVars
  /\ UNCHANGED arithVars

\* The channel appends a byte to the payload.
TamperAppend ==
  /\ pc = "encoded"
  /\ tamperLeft > 0
  /\ \E b \in TamperBytes : wire' = Append(wire, b)
  /\ tamperLeft' = tamperLeft - 1
  /\ UNCHANGED <<input, encoded, decoded, reencoded, uidCounter, pc>>
  /\ UNCHANGED concurrentVars
  /\ UNCHANGED bridgeVars
  /\ UNCHANGED arithVars

\* DecodeBinary(wire); the ids it mints advance the process-wide counter.
Decode ==
  /\ pc = "encoded"
  /\ decoded' = DecodeBinary(wire, uidCounter)
  /\ uidCounter' = decoded'.uid
  /\ pc' = "decoded"
  /\ UNCHANGED <<input, encoded, wire, tamperLeft, reencoded>>
  /\ UNCHANGED concurrentVars
  /\ UNCHANGED bridgeVars
  /\ UNCHANGED arithVars

\* EncodeBinary of the decoded document.
ReEncode ==
  /\ pc = "decoded"
  /\ decoded.st = "ok"
  /\ reencoded' = EncodeBinary(decoded.doc)
  /\ pc' = "reencoded"
  /\ UNCHANGED <<input, encoded, wire, tamperLeft, decoded, uidCounter>>
  /\ UNCHANGED concurrentVars
  /\ UNCHANGED bridgeVars
  /\ UNCHANGED arithVars

Next == Encode \/ TamperSet \/ TamperTruncate \/ TamperAppend \/ Decode \/ ReEncode

Spec == Init /\ [][Next]_vars

(***************************************************************************)
(* DecodeBinary calls running at the same time in one process.  The calls  *)
(* share nothing but uidCounter, which newUID advances with one atomic     *)
(* add.  Between two newUID a call works on its own state only, so a step  *)
(* of a call is either its run up to its next newUID or that newUID with   *)
(* the field read before it.                                               *)
(***************************************************************************)
\* The number of calls, and the values the counter may have when they begin.
MaxCalls == 2

StartCounters == {0, 7}

\* The documents whose payloads are decoded, and the payloads: those of the
\* documents, and the same cut short by one byte.
ConcurrentDocs ==
  {TTMLLyric(<<>>, <<PlainLine(Fin(4), Fin(12),
                       <<PlainWord(Fin(4), Fin(8)), PlainWord(Fin(8), Fin(12))>>)>>),
   TTMLLyric(FixedMeta,
             <<PlainLine(Fin(4), Fin(8), <<PlainWord(Fin(4), Fin(8))>>),
               PlainLine(Fin(8), Fin(16),
                 <<PlainWord(Fin(8), Fin(12)), PlainWord(Fin(12), Fin(16))>>)>>)}

ConcurrentPayloads ==
  {EncodeBinary(d).bytes : d \in ConcurrentDocs}
    \cup {SubSeq(EncodeBinary(d).bytes, 1, Len(EncodeBinary(d).bytes) - 1) :
            d \in ConcurrentDocs}

\* The steps of DecodeBinary that call newUID.
MintSteps == {"word_count", "word_times"}

RECURSIVE RunToNewUID(_)
RunToNewUID(s) ==
  IF s.pc = "done" \/ s.pc \in MintSteps THEN s ELSE RunToNewUID(DecodeStep(s))

InitConcurrent ==
  /\ input = EmptyLyric
  /\ encoded = NoEnc
  /\ wire = <<>>
  /\ tamperLeft = 0
  /\ decoded = NoDec
  /\ reencoded = NoEnc
  /\ pc = "concurrent"
  /\ uidCounter \in StartCounters
  /\ calls \in {[c \in 1..MaxCalls |-> decoderStart(payloads[c], 0)] :
                  payloads \in [1..MaxCalls -> ConcurrentPayloads]}
  /\ minted = <<>>
  /\ bridge = NoBridge
  /\ adding = NoAdding

\* A call runs on its own state up to its next newUID, or to its return.
DecodeToNewUID(c) ==
  /\ calls[c].pc # "done"
  /\ calls[c].pc \notin MintSteps
  /\ calls' = [calls EXCEPT ![c] = RunToNewUID(DecodeStep(calls[c]))]
  /\ UNCHANGED <<uidCounter, minted>>
  /\ UNCHANGED sequentialVars
  /\ UNCHANGED bridgeVars
  /\ UNCHANGED arithVars

\* A call takes the step that holds a newUID: the atomic add on uidCounter
\* (unless the field read before it fails).
MintID(c) ==
  /\ calls[c].pc \in MintSteps
  /\ \E after \in {DecodeStep([calls[c] EXCEPT !.uid = uidCounter])} :
       /\ calls' = [calls EXCEPT ![c] = after]
       /\ uidCounter' = after.uid
       /\ minted' = IF after.uid = uidCounter THEN minted
                    ELSE Append(minted, [call |-> c, n |-> after.uid])
  /\ UNCHANGED sequentialVars
  /\ UNCHANGED bridgeVars
  /\ UNCHANGED arithVars

NextConcurrent == \E c \in 1..MaxCalls : DecodeToNewUID(c) \/ MintID(c)

SpecConcurrent == InitConcurrent /\ [][NextConcurrent]_vars

(***************************************************************************)
(* Vocabulary of the properties.                                           *)
(***************************************************************************)
Range(seq) == {seq[i] : i \in 1..Len(seq)}

SetMin(S) == CHOOSE x \in S : \A y \in S : x <= y

SetMax(S) == CHOOSE x \in S : \A y \in S : y <= x

\* A decode has happened, and it was of the bytes EncodeBinary returned.
Decoded == pc \in {"decoded", "reencoded"}

DecodedOwnBytes == Decoded /\ encoded.st = "ok" /\ wire = encoded.bytes

\* The start and end times of the lines and words of a document, and the
\* empty beats of its words.
WordsOf(d) == UNION {Range(d.LyricLines[i].Words) : i \in 1..Len(d.LyricLines)}

TimesOf(d) ==
  {d.LyricLines[i].StartTime : i \in 1..Len(d.LyricLines)}
    \cup {d.LyricLines[i].EndTime : i \in 1..Len(d.LyricLines)}
    \cup {w.StartTime : w \in WordsOf(d)}
    \cup {w.EndTime : w \in WordsOf(d)}

BeatsOf(d) == {w.EmptyBeat : w \in WordsOf(d)}

\* Finite and non-negative; moreover rounding to at most the time ceiling.
FiniteNonNegative(t) == t.k = "fin" /\ t.q >= 0

InRange(t) == FiniteNonNegative(t) /\ RoundMS(t) <= maxBinaryTimeMS

\* An empty beat that is present: finite, positive, rounding above zero.
BeatPresent(b) == b.k = "fin" /\ b.q > 0 /\ RoundMS(b) > 0

BeatInRange(b) == BeatPresent(b) => RoundMS(b) <= maxBinaryTimeMS

\* The float holding a whole number of milliseconds.
Millis(n) == Fin(4 * n)

EraseIDs(d) ==
  [d EXCEPT !.LyricLines =
     [i \in 1..Len(d.LyricLines) |->
        [d.LyricLines[i] EXCEPT
           !.ID = EmptyString,
           !.Words = [j \in 1..Len(d.LyricLines[i].Words) |->
                        [d.LyricLines[i].Words[j] EXCEPT !.ID = EmptyString]]]]]

\* d with every line and word start and end rounded to the millisecond.
RoundedTimes(d) ==
  [d EXCEPT !.LyricLines =
     [i \in 1..Len(d.LyricLines) |->
        [d.LyricLines[i] EXCEPT
           !.StartTime = Millis(RoundMS(@)),
           !.EndTime = Millis(RoundMS(@)),
           !.Words = [j \in 1..Len(d.LyricLines[i].Words) |->
                        [d.LyricLines[i].Words[j] EXCEPT
                           !.StartTime = Millis(RoundMS(@)),
                           !.EndTime = Millis(RoundMS(@))]]]]]

\* The rounded start of a word, and its rounded end raised to that start.
WordStartOf(w) == RoundMS(w.StartTime)

WordEndOf(w) ==
  IF RoundMS(w.EndTime) < RoundMS(w.StartTime)
    THEN RoundMS(w.StartTime) ELSE RoundMS(w.EndTime)

\* The envelope of a line: the earliest of its rounded start and its words'
\* starts; the latest of its rounded end, its words' ends and that start.
EnvelopeStart(l) ==
  SetMin({RoundMS(l.StartTime)} \cup {WordStartOf(w) : w \in Range(l.Words)})

EnvelopeEnd(l) ==
  SetMax({RoundMS(l.EndTime), EnvelopeStart(l)} \cup {WordEndOf(w) : w \in Range(l.Words)})

\* d as the codec keeps it: times rounded, word ends raised, lines widened to
\* their envelope, absent empty beats zero.
NormalizedDoc(d) ==
  [d EXCEPT !.LyricLines =
     [i \in 1..Len(d.LyricLines) |->
        [d.LyricLines[i] EXCEPT
           !.StartTime = Millis(EnvelopeStart(d.LyricLines[i])),
           !.EndTime = Millis(EnvelopeEnd(d.LyricLines[i])),
           !.Words = [j \in 1..Len(d.LyricLines[i].Words) |->
                        [d.LyricLines[i].Words[j] EXCEPT
                           !.StartTime = Millis(WordStartOf(d.LyricLines[i].Words[j])),
                           !.EndTime = Millis(WordEndOf(d.LyricLines[i].Words[j])),
                           !.EmptyBeat = IF BeatPresent(@) THEN Millis(RoundMS(@))
                                         ELSE Millis(0)]]]]]

(***************************************************************************)
(* C1 and C2: round trips.                                                 *)
(***************************************************************************)
\* C1 as stated: if every line and word time of the document is finite and
\* non-negative, EncodeBinary succeeds, DecodeBinary of its bytes succeeds,
\* and the decoded document is the input with ids erased and times rounded,
\* every other field as it was.
C1_RoundTripAsStated ==
  (\A t \in TimesOf(input) : FiniteNonNegative(t)) =>
     /\ pc # "start" => encoded.st = "ok"
     /\ (Decoded /\ wire = encoded.bytes) =>
          /\ decoded.st = "ok"
          /\ EraseIDs(decoded.doc) = RoundedTimes(EraseIDs(input))

\* The times and empty beats EncodeBinary wrote.
WrittenTimes(enc) ==
  {enc.written[i].startMS : i \in 1..Len(enc.written)}
    \cup {enc.written[i].endMS : i \in 1..Len(enc.written)}
    \cup UNION {{w.startMS, w.endMS, w.emptyBeatMS} : w \in
                  UNION {Range(enc.written[i].words) : i \in 1..Len(enc.written)}}

\* C1: if every line and word time of the document is finite, non-negative
\* and rounds to at most the time ceiling, and so does every present empty
\* beat, EncodeBinary succeeds, DecodeBinary of its bytes succeeds, and the
\* decoded document is, ids erased, the input as the codec keeps it: times
\* rounded, each word end raised to the word start, each line widened to the
\* envelope of its words, each absent empty beat zero.  Whatever the
\* document, DecodeBinary accepts the bytes of EncodeBinary exactly when no
\* time or empty beat written is above the ceiling, and what it returns is
\* then that normalized document.
C1_RoundTrip ==
  /\ ((\A t \in TimesOf(input) : InRange(t)) /\ (\A b \in BeatsOf(input) : BeatInRange(b))) =>
       /\ pc # "start" => encoded.st = "ok"
       /\ (Decoded /\ wire = encoded.bytes) =>
            /\ decoded.st = "ok"
            /\ EraseIDs(decoded.doc) = NormalizedDoc(EraseIDs(input))
  /\ DecodedOwnBytes =>
       /\ decoded.st = "ok" <=> (\A v \in WrittenTimes(encoded) : v <= maxBinaryTimeMS)
       /\ decoded.st = "ok" => EraseIDs(decoded.doc) = NormalizedDoc(EraseIDs(input))
       /\ decoded.st # "ok" => (decoded.st = "error" /\ decoded.err.kind = "overflow")

\* A document in range was decoded from its own bytes, one of its words ending
\* before it starts and starting before its line.
C1_Witness ==
  /\ DecodedOwnBytes
  /\ decoded.st = "ok"
  /\ \A t \in TimesOf(input) : InRange(t)
  /\ \A b \in BeatsOf(input) : BeatInRange(b)
  /\ \E i \in 1..Len(input.LyricLines) : \E w \in Range(input.LyricLines[i].Words) :
       /\ RoundMS(w.EndTime) < RoundMS(w.StartTime)
       /\ RoundMS(w.StartTime) < RoundMS(input.LyricLines[i].StartTime)

\* C2 as stated: whenever EncodeBinary succeeds, decoding its bytes and
\* encoding the decoded document succeeds and gives the same bytes.
C2_ReencodeAsStated ==
  (encoded.st = "ok" /\ wire = encoded.bytes) =>
     /\ Decoded => decoded.st = "ok"
     /\ pc = "reencoded" => (reencoded.st = "ok" /\ reencoded.bytes = encoded.bytes)

\* C2 for documents in range: whenever the times and present empty beats of
\* the document round to at most the time ceiling and EncodeBinary succeeds,
\* decoding its bytes succeeds and encoding the decoded document succeeds
\* and gives the same bytes.
C2_ReencodeInRange ==
  ((\A t \in TimesOf(input) : InRange(t)) /\ (\A b \in BeatsOf(input) : BeatInRange(b))) =>
     C2_ReencodeAsStated

\* A document whose line was widened and whose word end was clamped was
\* encoded, decoded and encoded again to the same bytes.
C2_Witness ==
  /\ pc = "reencoded"
  /\ wire = encoded.bytes
  /\ reencoded.st = "ok"
  /\ reencoded.bytes = encoded.bytes
  /\ \E i \in 1..Len(input.LyricLines) : \E w \in Range(input.LyricLines[i].Words) :
       /\ RoundMS(w.EndTime) < RoundMS(w.StartTime)
       /\ RoundMS(w.StartTime) > RoundMS(input.LyricLines[i].EndTime)

(***************************************************************************)
(* C3, C4, C5: what the encoder writes for a line and a word.              *)
(***************************************************************************)
\* The events of a field of a line, or of a word, in what a decode read.
LineEvents(field, i) ==
  {e \in Range(decoded.trace) : e.field = field /\ e.line = i - 1}

WordEvents(field, i, j) ==
  {e \in Range(decoded.trace) : e.field = field /\ e.line = i - 1 /\ e.word = j - 1}

\* A line whose interval is well ordered and holds its words.
WordsInsideLine(l) ==
  /\ RoundMS(l.StartTime) <= RoundMS(l.EndTime)
  /\ \A w \in Range(l.Words) :
       /\ RoundMS(l.StartTime) <= RoundMS(w.StartTime)
       /\ RoundMS(w.StartTime) <= RoundMS(w.EndTime)
       /\ RoundMS(w.EndTime) <= RoundMS(l.EndTime)

\* C3: for every line EncodeBinary encodes, the start written is the least
\* of the rounded line start and the rounded word starts, the end written
\* is the greatest of the rounded line end and the word ends after clamping,
\* raised to the start written if below it; these are the values a decode of
\* the bytes reads; in the decoded document every word has
\* line.start <= word.start <= word.end <= line.end; and a line whose words
\* lie inside its well-ordered interval keeps its rounded start and end.
C3_LineEnvelope ==
  (pc # "start" /\ encoded.st = "ok") =>
    \A i \in 1..Len(input.LyricLines) :
      /\ encoded.written[i].startMS = EnvelopeStart(input.LyricLines[i])
      /\ encoded.written[i].endMS = EnvelopeEnd(input.LyricLines[i])
      /\ WordsInsideLine(input.LyricLines[i]) =>
           /\ encoded.written[i].startMS = RoundMS(input.LyricLines[i].StartTime)
           /\ encoded.written[i].endMS = RoundMS(input.LyricLines[i].EndTime)
      /\ DecodedOwnBytes =>
           /\ \A e \in LineEvents("line.start_time", i) :
                e.v = EnvelopeStart(input.LyricLines[i])
           /\ \A e \in LineEvents("line.end_time", i) :
                e.v = EnvelopeEnd(input.LyricLines[i])
           /\ decoded.st = "ok" =>
                /\ Len(decoded.doc.LyricLines) = Len(input.LyricLines)
                /\ \A w \in Range(decoded.doc.LyricLines[i].Words) :
                     /\ decoded.doc.LyricLines[i].StartTime.q <= w.StartTime.q
                     /\ w.StartTime.q <= w.EndTime.q
                     /\ w.EndTime.q <= decoded.doc.LyricLines[i].EndTime.q

\* A line widened at both ends by its words was encoded and decoded.
C3_Witness ==
  /\ DecodedOwnBytes
  /\ decoded.st = "ok"
  /\ \E i \in 1..Len(input.LyricLines) :
       /\ \E w \in Range(input.LyricLines[i].Words) :
            RoundMS(w.StartTime) < RoundMS(input.LyricLines[i].StartTime)
       /\ \E w \in Range(input.LyricLines[i].Words) :
            RoundMS(w.EndTime) > RoundMS(input.LyricLines[i].EndTime)
       /\ decoded.doc.LyricLines[i].StartTime = Millis(EnvelopeStart(input.LyricLines[i]))
       /\ decoded.doc.LyricLines[i].EndTime = Millis(EnvelopeEnd(input.LyricLines[i]))

\* A word whose rounded end is before its rounded start.
Inverted(w) ==
  /\ FiniteNonNegative(w.StartTime)
  /\ FiniteNonNegative(w.EndTime)
  /\ RoundMS(w.EndTime) < RoundMS(w.StartTime)

EncoderCeiling == RoundToFloat(maxBinaryTimeMS)

\* Bit 1 of the word-flag byte written.
BeatBitSet(wordFlags) == (wordFlags \div 2) % 2 = 1

\* C5 as stated, for documents whose line and word times are in range: an
\* empty beat that is finite, positive and rounds above zero is written (bit 1
\* set, then the rounded value); in every other case EncodeBinary succeeds
\* with bit 1 clear and the decoded word has emptyBeat = 0.
C5_EmptyBeatAsStated ==
  ((\A t \in TimesOf(input) : InRange(t)) /\ pc # "start") =>
    /\ encoded.st = "ok"
    /\ \A i \in 1..Len(input.LyricLines) :
         \A j \in 1..Len(input.LyricLines[i].Words) :
           IF BeatPresent(input.LyricLines[i].Words[j].EmptyBeat)
             THEN /\ BeatBitSet(encoded.written[i].words[j].wordFlags)
                  /\ encoded.written[i].words[j].hasEmptyBeat
                  /\ encoded.written[i].words[j].emptyBeatMS
                       = RoundMS(input.LyricLines[i].Words[j].EmptyBeat)
             ELSE /\ ~BeatBitSet(encoded.written[i].words[j].wordFlags)
                  /\ ~encoded.written[i].words[j].hasEmptyBeat
                  /\ DecodedOwnBytes =>
                       /\ decoded.st = "ok"
                       /\ decoded.doc.LyricLines[i].Words[j].EmptyBeat = Millis(0)

\* C5: for documents whose line and word times are in range.  If an empty
\* beat is finite, positive and rounds above the encoder's ceiling,
\* EncodeBinary fails with an empty_beat overflow error.  Otherwise
\* EncodeBinary succeeds; an empty beat that is finite, positive and rounds
\* above zero is written (bit 1 set, then the rounded value, which is what a
\* decode reads and returns, unless the value is above the decoder's ceiling,
\* when the decode fails); any other empty beat (NaN, infinite, zero, negative,
\* rounding to 0) leaves bit 1 clear with no value written, and the decoded
\* word, when the document's empty beats are in the decoder's range, has
\* emptyBeat = 0.
C5_EmptyBeat ==
  ((\A t \in TimesOf(input) : InRange(t)) /\ pc # "start") =>
    IF \E b \in BeatsOf(input) : BeatPresent(b) /\ RoundMS(b) > EncoderCeiling
      THEN /\ encoded.st = "error"
           /\ encoded.err.kind = "overflow"
           /\ encoded.err.field = "empty_beat"
           /\ encoded.bytes = <<>>
      ELSE
        /\ encoded.st = "ok"
        /\ \A i \in 1..Len(input.LyricLines) :
             \A j \in 1..Len(input.LyricLines[i].Words) :
               IF BeatPresent(input.LyricLines[i].Words[j].EmptyBeat)
                 THEN /\ BeatBitSet(encoded.written[i].words[j].wordFlags)
                      /\ encoded.written[i].words[j].hasEmptyBeat
                      /\ encoded.written[i].words[j].emptyBeatMS
                           = RoundMS(input.LyricLines[i].Words[j].EmptyBeat)
                      /\ DecodedOwnBytes =>
                           /\ \A e \in WordEvents("word.empty_beat_ms", i, j) :
                                e.v = RoundMS(input.LyricLines[i].Words[j].EmptyBeat)
                           /\ RoundMS(input.LyricLines[i].Words[j].EmptyBeat)
                                  > maxBinaryTimeMS =>
                                (decoded.st = "error" /\ decoded.err.kind = "overflow")
                           /\ decoded.st = "ok" =>
                                decoded.doc.LyricLines[i].Words[j].EmptyBeat
                                  = Millis(RoundMS(input.LyricLines[i].Words[j].EmptyBeat))
                 ELSE /\ ~BeatBitSet(encoded.written[i].words[j].wordFlags)
                      /\ ~encoded.written[i].words[j].hasEmptyBeat
                      /\ DecodedOwnBytes =>
                           /\ WordEvents("word.empty_beat_ms", i, j) = {}
                           /\ (\A b \in BeatsOf(input) : BeatInRange(b)) =>
                                /\ decoded.st = "ok"
                                /\ decoded.doc.LyricLines[i].Words[j].EmptyBeat = Millis(0)

\* A document with an empty beat that is not a number was encoded and decoded:
\* the decoded word has no empty beat.
C5_Witness ==
  /\ DecodedOwnBytes
  /\ decoded.st = "ok"
  /\ \E i \in 1..Len(input.LyricLines) :
       \E j \in 1..Len(input.LyricLines[i].Words) :
         /\ IsNaN(input.LyricLines[i].Words[j].EmptyBeat)
         /\ decoded.doc.LyricLines[i].Words[j].EmptyBeat = Millis(0)

(***************************************************************************)
(* C6 to C10: what DecodeBinary rejects.  `wire` is any payload the        *)
(* channel delivered, `decoded.trace` the fields DecodeBinary read from it.*)
(***************************************************************************)
\* C6: DecodeBinary returns an error for every payload whose first four bytes
\* are not "AMLX", shorter payloads included, and for every payload whose
\* fifth byte is not 1, whatever follows.
C6_Preamble ==
  Decoded =>
    /\ (Len(wire) < 4 \/ SubSeq(wire, 1, 4) # <<65, 77, 76, 88>>) =>
         (decoded.st = "error" /\ decoded.trace = <<>>)
    /\ (Len(wire) >= 5 /\ wire[5] # 1) => decoded.st = "error"

\* A payload that is an encoder's output but for one of its first four bytes
\* was decoded.
C6_Witness ==
  /\ Decoded
  /\ Len(wire) > 5
  /\ SubSeq(wire, 1, 4) # <<65, 77, 76, 88>>
  /\ wire[5] = 1
  /\ decoded.st = "error"
  /\ decoded.err.kind = "invalid magic"

\* The fields that carry a string id.
StringIDFields ==
  {"metadata.key_string_id", "metadata.value_string_id", "line.translated_string_id",
   "line.roman_string_id", "word.text_string_id", "word.roman_string_id"}

\* The strings of a document.
StringsOf(d) ==
  {d.Metadata[i].Key : i \in 1..Len(d.Metadata)}
    \cup UNION {Range(d.Metadata[i].Value) : i \in 1..Len(d.Metadata)}
    \cup {d.LyricLines[i].TranslatedLyric : i \in 1..Len(d.LyricLines)}
    \cup {d.LyricLines[i].RomanLyric : i \in 1..Len(d.LyricLines)}
    \cup {w.Word : w \in WordsOf(d)}
    \cup {w.RomanWord : w \in WordsOf(d)}

\* C7: DecodeBinary returns an error whenever a string id it read, at any of
\* the six sites, is at least the number of strings of the decoded pool; and
\* every string of a decoded document is a string of the pool (or the empty
\* string of an absent field).
C7_StringIdBounds ==
  Decoded =>
    /\ \A e \in Range(decoded.trace) :
         (e.field \in StringIDFields /\ e.v >= Len(decoded.stringPool)) =>
           decoded.st = "error"
    /\ decoded.st = "ok" =>
         StringsOf(decoded.doc) \subseteq Range(decoded.stringPool) \cup {EmptyString}

\* A payload whose word text id equals the pool size was decoded.
C7_Witness ==
  /\ Decoded
  /\ decoded.st = "error"
  /\ Len(decoded.stringPool) > 0
  /\ \E e \in Range(decoded.trace) :
       e.field = "word.text_string_id" /\ e.v = Len(decoded.stringPool)

\* C8: DecodeBinary returns an error for every payload in which a line-flag
\* byte it read has one of bits 5-7 set or a word-flag byte one of bits 4-7.
C8_ReservedFlags ==
  Decoded =>
    \A e \in Range(decoded.trace) :
      ((e.field = "line.line_flags" /\ e.v \div 32 # 0)
         \/ (e.field = "word.word_flags" /\ e.v \div 16 # 0)) =>
        decoded.st = "error"

\* A payload with bit 5 of a line-flag byte set, nothing else amiss, was decoded.
C8_Witness ==
  /\ Decoded
  /\ decoded.st = "error"
  /\ decoded.err.kind = "reserved line flags are set"
  /\ \E e \in Range(decoded.trace) : e.field = "line.line_flags" /\ e.v = 32

\* C9: DecodeBinary returns an error for every payload with a line whose
\* encoded end is below its encoded start; every line of a decoded document
\* has end >= start.
C9_LineTimingRegression ==
  Decoded =>
    /\ \A a \in Range(decoded.trace) : \A b \in Range(decoded.trace) :
         (a.field = "line.start_time" /\ b.field = "line.end_time"
            /\ a.line = b.line /\ b.v < a.v) =>
           decoded.st = "error"
    /\ decoded.st = "ok" =>
         \A i \in 1..Len(decoded.doc.LyricLines) :
           decoded.doc.LyricLines[i].EndTime.q >= decoded.doc.LyricLines[i].StartTime.q

\* A payload with a line ending before it starts was decoded.
C9_Witness ==
  /\ Decoded
  /\ decoded.st = "error"
  /\ \E a \in Range(decoded.trace) : \E b \in Range(decoded.trace) :
       /\ a.field = "line.start_time"
       /\ b.field = "line.end_time"
       /\ a.line = b.line
       /\ b.v < a.v

\* C10: DecodeBinary returns an error whenever the metadata entries announced
\* by metadata_count were decoded and bytes of the header slice are left.
C10_HeaderTrailingBytes ==
  Decoded =>
    \A e \in Range(decoded.trace) :
      (e.field = "header_left" /\ e.v > 0) =>
        /\ decoded.st = "error"
        /\ decoded.err.kind = "header section has unexpected trailing bytes"
        /\ decoded.doc = EmptyLyric

\* A payload whose header holds more bytes than its entries was decoded.
C10_Witness ==
  /\ Decoded
  /\ decoded.st = "error"
  /\ \E e \in Range(decoded.trace) : e.field = "header_left" /\ e.v > 0
  /\ \E e \in Range(decoded.trace) : e.field = "metadata.error_flag"
(***************************************************************************)
(* C11: the global-flags byte.                                             *)
(***************************************************************************)
\* Where the global-flags byte sits in a payload, and the values a twin
\* payload gives it.
GlobalFlagsAt == Len(amlxMagic) + 2

GlobalFlagBytes == {0, 1, 2, 64, 128, 255}

\* C11: a payload and any payload that differs from it only in the
\* global-flags byte (the sixth byte) have the same DecodeBinary outcome:
\* both end the same way (both fail, or both succeed) and, when they succeed,
\* the two documents are equal with ids erased.
C11_GlobalFlagsIgnored ==
  (Decoded /\ Len(wire) >= GlobalFlagsAt) =>
    \A b \in GlobalFlagBytes :
      \A other \in {DecodeBinary([wire EXCEPT ![GlobalFlagsAt] = b], 0)} :
        /\ other.st = decoded.st
        /\ other.st # "ok" => other.err = decoded.err
        /\ other.st = "ok" => EraseIDs(other.doc) = EraseIDs(decoded.doc)

\* A payload whose global-flags byte is not zero was decoded to a document
\* with metadata, a line and a word.
C11_Witness ==
  /\ Decoded
  /\ Len(wire) >= GlobalFlagsAt
  /\ wire[GlobalFlagsAt] = 128
  /\ decoded.st = "ok"
  /\ Len(decoded.doc.Metadata) > 0
  /\ \E i \in 1..Len(decoded.doc.LyricLines) : Len(decoded.doc.LyricLines[i].Words) > 0

(***************************************************************************)
(* C12: metadata.                                                          *)
(***************************************************************************)
\* The metadata entries a decode read from the header section, rebuilt from
\* the fields it read and its string pool.
MetadataRead(dec) ==
  [i \in 1..Cardinality({e \in Range(dec.trace) : e.field = "metadata.error_flag"}) |->
     TTMLMetadata(
       The({dec.stringPool[e.v + 1] : e \in
              {e \in Range(dec.trace) :
                 e.field = "metadata.key_string_id" /\ e.line = i - 1}}),
       [j \in 1..Cardinality({e \in Range(dec.trace) :
                                e.field = "metadata.value_string_id" /\ e.line = i - 1}) |->
          The({dec.stringPool[e.v + 1] : e \in
                 {e \in Range(dec.trace) :
                    e.field = "metadata.value_string_id" /\ e.line = i - 1
                      /\ e.word = j - 1}})],
       The({e.v # 0 : e \in
              {e \in Range(dec.trace) :
                 e.field = "metadata.error_flag" /\ e.line = i - 1}}))]

\* C12: whenever EncodeBinary accepts a document, DecodeBinary reads from its
\* bytes the metadata of the document: as many entries, in the same order,
\* entries sharing a key kept apart, each with its values in their order
\* (none, or repeated ones alike) and its error flag; and the document a
\* successful decode returns carries exactly that metadata.
C12_MetadataPreserved ==
  DecodedOwnBytes =>
    /\ MetadataRead(decoded) = input.Metadata
    /\ decoded.st = "ok" => decoded.doc.Metadata = input.Metadata

\* A document with two entries under one key, one without values and one
\* with a repeated value and the error flag, was encoded and decoded.
C12_Witness ==
  /\ DecodedOwnBytes
  /\ decoded.st = "ok"
  /\ Len(input.Metadata) = 2
  /\ input.Metadata[1].Key = input.Metadata[2].Key
  /\ input.Metadata[1].Value = <<>>
  /\ input.Metadata[2].Value = <<StrB, StrA, StrB>>
  /\ input.Metadata[2].Error /\ ~input.Metadata[1].Error
  /\ Len(decoded.doc.Metadata) = 2

(***************************************************************************)
(* C13: the string pool.                                                   *)
(***************************************************************************)
RECURSIVE Flatten(_)
Flatten(seqs) == IF seqs = <<>> THEN <<>> ELSE Head(seqs) \o Flatten(Tail(seqs))

\* A string when it is not empty.
IfPresent(str) == IF str = EmptyString THEN <<>> ELSE <<str>>

\* The strings of a document in the order of the traversal: each metadata
\* key then its values; then per line the translated lyric and the roman
\* lyric when not empty, then per word its text and its roman word when not
\* empty.
Traversal(d) ==
  Flatten([i \in 1..Len(d.Metadata) |-> <<d.Metadata[i].Key>> \o d.Metadata[i].Value])
    \o Flatten([i \in 1..Len(d.LyricLines) |->
         IfPresent(d.LyricLines[i].TranslatedLyric)
           \o IfPresent(d.LyricLines[i].RomanLyric)
           \o Flatten([j \in 1..Len(d.LyricLines[i].Words) |->
                <<d.LyricLines[i].Words[j].Word>>
                  \o IfPresent(d.LyricLines[i].Words[j].RomanWord)])])

\* The elements of a sequence, each at its first occurrence.
RECURSIVE FirstOccurrences(_)
FirstOccurrences(seq) ==
  IF seq = <<>> THEN <<>>
  ELSE The({IF seq[Len(seq)] \in Range(before) THEN before
            ELSE Append(before, seq[Len(seq)]) :
            before \in {FirstOccurrences(SubSeq(seq, 1, Len(seq) - 1))}})

\* The id read points at the string in the pool EncodeBinary built.
IdPointsTo(e, str) == e.v < Len(encoded.pool) /\ encoded.pool[e.v + 1] = str

\* The id of an optional string was read exactly when the string is there.
ReadWhenPresent(events, str) ==
  /\ \A e \in events : IdPointsTo(e, str)
  /\ decoded.st = "ok" => (events # {} <=> str # EmptyString)

\* The id of a string that is always written.
ReadAlways(events, str) ==
  /\ \A e \in events : IdPointsTo(e, str)
  /\ decoded.st = "ok" => events # {}

\* C13: the pool EncodeBinary writes is the sequence of the distinct strings
\* of the document in order of first occurrence in the traversal; no string
\* is in it twice; a decode of the bytes reads that pool from the pool
\* section; every string id the header and the lyric sections carry points
\* at the pool entry equal to the source string (an optional string has an
\* id exactly when it is not empty); and the ids used are 0 .. size - 1.
C13_StringPool ==
  (pc # "start" /\ encoded.st = "ok") =>
    /\ encoded.pool = FirstOccurrences(Traversal(input))
    /\ \A i, j \in 1..Len(encoded.pool) : i # j => encoded.pool[i] # encoded.pool[j]
    /\ DecodedOwnBytes =>
         /\ decoded.stringPool = encoded.pool
         /\ \A i \in 1..Len(input.Metadata) :
              /\ ReadAlways(LineEvents("metadata.key_string_id", i), input.Metadata[i].Key)
              /\ \A j \in 1..Len(input.Metadata[i].Value) :
                   ReadAlways(WordEvents("metadata.value_string_id", i, j),
                              input.Metadata[i].Value[j])
         /\ \A i \in 1..Len(input.LyricLines) :
              /\ ReadWhenPresent(LineEvents("line.translated_string_id", i),
                                 input.LyricLines[i].TranslatedLyric)
              /\ ReadWhenPresent(LineEvents("line.roman_string_id", i),
                                 input.LyricLines[i].RomanLyric)
              /\ \A j \in 1..Len(input.LyricLines[i].Words) :
                   /\ ReadAlways(WordEvents("word.text_string_id", i, j),
                                 input.LyricLines[i].Words[j].Word)
                   /\ ReadWhenPresent(WordEvents("word.roman_string_id", i, j),
                                      input.LyricLines[i].Words[j].RomanWord)
         /\ decoded.st = "ok" =>
              {e.v : e \in {e \in Range(decoded.trace) : e.field \in StringIDFields}}
                = 0..(Len(encoded.pool) - 1)

\* A document in which a string occurs again after other strings (in the
\* metadata and in a line), with an empty word text and an absent optional
\* string, was encoded and decoded.
C13_Witness ==
  /\ DecodedOwnBytes
  /\ decoded.st = "ok"
  /\ Len(Traversal(input)) > Len(encoded.pool) + 1
  /\ Len(encoded.pool) >= 3
  /\ \E i \in 1..Len(input.LyricLines) :
       /\ input.LyricLines[i].TranslatedLyric # EmptyString
       /\ input.LyricLines[i].RomanLyric = EmptyString
       /\ \E w \in Range(input.LyricLines[i].Words) : w.Word = EmptyString
  /\ Len(input.Metadata) > 0

(***************************************************************************)
(* C14: the container.                                                     *)
(***************************************************************************)
\* The bytes of "AMLX", of the version and of the global flags.
Preamble == <<65, 77, 76, 88, 1, 0>>

\* The string-pool section of a payload, laid out from the pool.
PoolSectionOf(pool) ==
  PutUvarint(Len(pool))
    \o Flatten([i \in 1..Len(pool) |-> PutUvarint(Len(pool[i])) \o pool[i]])

\* C14: a payload EncodeBinary returns is "AMLX", 0x01, 0x00, the varint of
\* the length of the header section, the header section, the string-pool
\* section and the lyric-data section, and nothing else; DecodeBinary reads
\* that header length, leaves no byte of the header section unread and,
\* when it succeeds, has consumed the payload to its last byte.
C14_ContainerFraming ==
  (pc # "start" /\ encoded.st = "ok") =>
    /\ encoded.bytes = Preamble \o PutUvarint(Len(encoded.header)) \o encoded.header
                         \o PoolSectionOf(encoded.pool) \o encoded.lyric
    /\ Len(encoded.bytes) = Len(Preamble) + Len(PutUvarint(Len(encoded.header)))
                              + Len(encoded.header) + Len(PoolSectionOf(encoded.pool))
                              + Len(encoded.lyric)
    /\ DecodedOwnBytes =>
         /\ \E e \in Range(decoded.trace) :
              e.field = "header_size" /\ e.v = Len(encoded.header)
         /\ \E e \in Range(decoded.trace) :
              e.field = "string_count" /\ e.v = Len(encoded.pool)
         /\ \E e \in Range(decoded.trace) : e.field = "header_left" /\ e.v = 0
         /\ \E e \in Range(decoded.trace) :
              e.field = "line_count" /\ e.v = Len(input.LyricLines)
         /\ decoded.st = "ok" => decoded.read = Len(encoded.bytes)

\* A payload with metadata, strings and two lines was decoded to its end.
C14_Witness ==
  /\ DecodedOwnBytes
  /\ decoded.st = "ok"
  /\ decoded.read = Len(wire)
  /\ Len(encoded.header) > 1
  /\ Len(encoded.pool) > 1
  /\ Len(input.LyricLines) = 2

(***************************************************************************)
(* C15: errors.                                                            *)
(***************************************************************************)
\* The fields of a line or word record that a decode read.
RecordEvents(dec) == {e \in Range(dec.trace) : e.line >= 0 /\ e.field \notin StringIDFields
                                                /\ e.field # "metadata.value_count"
                                                /\ e.field # "metadata.error_flag"}

\* C15: a DecodeBinary that returns an error returns the empty document
\* with it, whatever it had decoded before the failing field, and a
\* DecodeBinary that succeeds returns no error; an EncodeBinary that returns
\* an error returns no bytes with it, and one that succeeds returns no
\* error; a failed call returns one error, that of the field it stopped at.
C15_NoPartialResult ==
  /\ Decoded =>
       /\ decoded.st = "error" => (decoded.doc = EmptyLyric /\ decoded.err # NoErr)
       /\ decoded.st = "ok" => decoded.err = NoErr
       /\ decoded.st \in {"ok", "error", "panic"}
  /\ pc # "start" =>
       /\ encoded.st = "error" => (encoded.bytes = <<>> /\ encoded.err # NoErr)
       /\ encoded.st = "ok" => encoded.err = NoErr
       /\ encoded.st \in {"ok", "error"}
  /\ pc = "reencoded" =>
       /\ reencoded.st = "error" => (reencoded.bytes = <<>> /\ reencoded.err # NoErr)
       /\ reencoded.st = "ok" => reencoded.err = NoErr

\* A decode failed in the second line of a payload, after the whole first
\* line and its word had been decoded.
C15_Witness ==
  /\ Decoded
  /\ decoded.st = "error"
  /\ decoded.err.line = 1
  /\ \E e \in RecordEvents(decoded) : e.line = 0 /\ e.field = "word.word_flags"
  /\ \E e \in RecordEvents(decoded) : e.line = 1
  /\ decoded.doc = EmptyLyric

(***************************************************************************)
(* C16: ids and the payload.                                               *)
(***************************************************************************)
\* The document with other ids: each line and word named after its place.
Relabelled(d) ==
  [d EXCEPT !.LyricLines =
     [i \in 1..Len(d.LyricLines) |->
        [d.LyricLines[i] EXCEPT
           !.ID = <<108, 48 + i>>,
           !.Words = [j \in 1..Len(d.LyricLines[i].Words) |->
                        [d.LyricLines[i].Words[j] EXCEPT !.ID = <<119, 48 + i, 48 + j>>]]]]]

\* C16: EncodeBinary gives a document and the documents that differ from it
\* only in the ids of lines and words (ids erased, ids replaced) the same
\* outcome: the same bytes, or the same error.
C16_IdsNotOnWire ==
  pc # "start" =>
    \A twin \in {EraseIDs(input), Relabelled(input)} :
      \A other \in {EncodeBinary(twin)} :
        /\ other.st = encoded.st
        /\ other.bytes = encoded.bytes
        /\ other.err = encoded.err

\* A document whose lines and words carry ids, the ids being strings that
\* also occur as lyrics, was encoded.
C16_Witness ==
  /\ pc = "encoded"
  /\ encoded.st = "ok"
  /\ \E i \in 1..Len(input.LyricLines) :
       /\ input.LyricLines[i].ID # EmptyString
       /\ \E w \in Range(input.LyricLines[i].Words) :
            w.ID # EmptyString /\ w.ID # input.LyricLines[i].ID
  /\ EraseIDs(input) # input
  /\ Relabelled(input) # input

(***************************************************************************)
(* C17: the order of the ids.                                              *)
(***************************************************************************)
\* The number an id names (strconv.ParseUint of a decimal string).
RECURSIVE ParseUint(_)
ParseUint(str) ==
  IF str = <<>> THEN 0
  ELSE 10 * ParseUint(SubSeq(str, 1, Len(str) - 1)) + (str[Len(str)] - 48)

\* The ids of a document in decode order: each line's id, then the ids of
\* its words first to last, the lines first to last.
IdsInDecodeOrder(d) ==
  Flatten([i \in 1..Len(d.LyricLines) |->
             <<d.LyricLines[i].ID>>
               \o [j \in 1..Len(d.LyricLines[i].Words) |-> d.LyricLines[i].Words[j].ID]])

\* The ids newUID gave a call, in the order it gave them.
MintedBy(c) ==
  [k \in 1..Len(SelectSeq(minted, LAMBDA m : m.call = c)) |->
     FormatUint(SelectSeq(minted, LAMBDA m : m.call = c)[k].n)]

\* C17: in the document a DecodeBinary call returns, whatever other calls
\* did meanwhile, the ids along the decode order (a line, then its words
\* first to last, then the next line) are the ids newUID gave the call, in
\* the order it gave them, and their numbers strictly increase.
C17_IdMintingOrder ==
  \A c \in DOMAIN calls :
    calls[c].st = "ok" =>
      \A ids \in {IdsInDecodeOrder(ReturnedDocument(calls[c]))} :
        /\ ids = MintedBy(c)
        /\ \A k \in 1..(Len(ids) - 1) : ParseUint(ids[k]) < ParseUint(ids[k + 1])
        /\ \A k \in 1..Len(ids) : FormatUint(ParseUint(ids[k])) = ids[k]

\* Two calls returned documents of two lines, the second line with two
\* words; the ids of the first call are not consecutive, the other call
\* having taken ids in between, and they pass from one digit to two.
C17_Witness ==
  /\ pc = "concurrent"
  /\ \A c \in DOMAIN calls :
       /\ calls[c].pc = "done" /\ calls[c].st = "ok"
       /\ Len(calls[c].lines) = 2
       /\ Len(calls[c].lines[2].Words) = 2
  /\ \E k \in 1..4 :
       ParseUint(IdsInDecodeOrder(ReturnedDocument(calls[1]))[k + 1])
         > ParseUint(IdsInDecodeOrder(ReturnedDocument(calls[1]))[k]) + 1
  /\ Len(calls[1].lines[1].ID) = 1
  /\ Len(calls[1].lines[2].Words[2].ID) = 2
  /\ ParseUint(calls[2].lines[1].ID) < ParseUint(calls[1].lines[1].ID)
  /\ ParseUint(calls[2].lines[2].ID) > ParseUint(calls[1].lines[1].ID)

(***************************************************************************)
(* C18: calls at the same time.                                            *)
(***************************************************************************)
\* C18: however DecodeBinary calls interleave, the ids newUID hands out are
\* pairwise distinct and no add on the counter is lost (the k-th id handed
\* out is the counter's first value plus k); the ids in the documents
\* returned are pairwise distinct, within a document and between them; and
\* each call ends as it does when it runs alone: the same outcome, the same
\* error, the same document apart from the ids, as many ids taken.
C18_ConcurrentDecodes ==
  /\ \A i, j \in 1..Len(minted) : i # j => minted[i].n # minted[j].n
  /\ uidCounter - Len(minted) \in StartCounters
  /\ \A k \in 1..Len(minted) : minted[k].n = uidCounter - Len(minted) + k
  /\ \A c \in DOMAIN calls :
       /\ Cardinality(Range(IdsInDecodeOrder(ReturnedDocument(calls[c]))))
            = Len(IdsInDecodeOrder(ReturnedDocument(calls[c])))
       /\ \A other \in DOMAIN calls \ {c} :
            Range(IdsInDecodeOrder(ReturnedDocument(calls[c])))
              \cap Range(IdsInDecodeOrder(ReturnedDocument(calls[other]))) = {}
       /\ calls[c].pc = "done" =>
            \A alone \in {DecodeBinary(calls[c].data, 0)} :
              /\ calls[c].st = alone.st
              /\ calls[c].err = alone.err
              /\ EraseIDs(ReturnedDocument(calls[c])) = EraseIDs(alone.doc)
              /\ Len(MintedBy(c)) = alone.uid
              /\ calls[c].trace = alone.trace

\* Two calls decoded the same payload, taking ids in turns more than once;
\* both returned a document.
C18_Witness ==
  /\ pc = "concurrent"
  /\ \A c \in DOMAIN calls : calls[c].pc = "done" /\ calls[c].st = "ok"
  /\ calls[1].data = calls[2].data
  /\ Cardinality({k \in 1..(Len(minted) - 1) : minted[k].call # minted[k + 1].call}) >= 3
  /\ Len(minted) >= 6

(***************************************************************************)
(* C19: the ids of two decodes of one payload.                             *)
(***************************************************************************)
\* Call c took all its ids before call d took its first.
RanBefore(c, d) ==
  \A i, j \in 1..Len(minted) : (minted[i].call = c /\ minted[j].call = d) => i < j

\* Two calls that have returned a document each, having decoded the same
\* payload one after the other.
SamePayloadTwice(c, d) ==
  /\ c # d
  /\ calls[c].pc = "done" /\ calls[c].st = "ok"
  /\ calls[d].pc = "done" /\ calls[d].st = "ok"
  /\ calls[c].data = calls[d].data
  /\ RanBefore(c, d)

\* C19 as stated: decoding the same payload twice gives the line or word at
\* each position the same id both times.
C19_SameIdsAsStated ==
  \A c, d \in DOMAIN calls :
    SamePayloadTwice(c, d) =>
      IdsInDecodeOrder(ReturnedDocument(calls[c]))
        = IdsInDecodeOrder(ReturnedDocument(calls[d]))

\* C19, what the ids are: when the same payload is decoded twice, one call
\* after the other, the id at each position of the second document is the
\* id at that position of the first plus the number of ids the first call
\* took, and the first id of the first document is the counter's value at
\* the start plus one.
C19_IdsFollowCounter ==
  \A c, d \in DOMAIN calls :
    SamePayloadTwice(c, d) =>
      \A first \in {IdsInDecodeOrder(ReturnedDocument(calls[c]))} :
        \A second \in {IdsInDecodeOrder(ReturnedDocument(calls[d]))} :
          /\ Len(first) = Len(second)
          /\ \A k \in 1..Len(first) :
               ParseUint(second[k]) = ParseUint(first[k]) + Len(first)
          /\ first # <<>> => ParseUint(first[1]) = uidCounter - Len(minted) + 1

\* The same payload was decoded twice, one call after the other, while the
\* counter did not begin at zero.
C19_Witness ==
  /\ pc = "concurrent"
  /\ SamePayloadTwice(1, 2)
  /\ Len(IdsInDecodeOrder(ReturnedDocument(calls[1]))) = 5
  /\ uidCounter - Len(minted) = 7

(***************************************************************************)
(* The markup bridge: ParseLyric, ExportTTMLText, TTMLToBinary and         *)
(* BinaryToTTML, with the helpers of timestamp.go and xml_node.go.         *)
(*                                                                         *)
(* Strings are byte sequences, as in the codec.  Element and attribute     *)
(* names are TLA+ strings: they come from the fixed vocabulary of the      *)
(* format, written with the prefixes ExportTTMLText declares (ttm, amll,   *)
(* itunes, xml).                                                           *)
(***************************************************************************)

(***************************************************************************)
(* Package strings.                                                        *)
(***************************************************************************)
IsSpace(c) == c \in {9, 10, 11, 12, 13, 32}

RECURSIVE TrimLeft(_)
TrimLeft(str) ==
  IF str # <<>> /\ IsSpace(Head(str)) THEN TrimLeft(Tail(str)) ELSE str

RECURSIVE TrimRight(_)
TrimRight(str) ==
  IF str # <<>> /\ IsSpace(str[Len(str)])
  THEN TrimRight(SubSeq(str, 1, Len(str) - 1))
  ELSE str

TrimSpace(str) == TrimRight(TrimLeft(str))

HasPrefix(str, prefix) ==
  Len(str) >= Len(prefix) /\ SubSeq(str, 1, Len(prefix)) = prefix

HasSuffix(str, suffix) ==
  Len(str) >= Len(suffix)
    /\ SubSeq(str, Len(str) - Len(suffix) + 1, Len(str)) = suffix

TrimPrefix(str, prefix) ==
  IF HasPrefix(str, prefix) THEN SubSeq(str, Len(prefix) + 1, Len(str)) ELSE str

TrimSuffix(str, suffix) ==
  IF HasSuffix(str, suffix) THEN SubSeq(str, 1, Len(str) - Len(suffix)) ELSE str

IsDigits(str) == \A i \in 1..Len(str) : str[i] \in 48..57

\* n in decimal, at least `width` digits ("%02d", and the parts of "%06.3f").
RECURSIVE Pad(_, _)
Pad(n, width) ==
  IF Len(FormatUint(n)) >= width THEN FormatUint(n)
  ELSE <<48>> \o Pad(n, width - 1)

(***************************************************************************)
(* timestamp.go.                                                           *)
(***************************************************************************)
TimeOk(v) == [ok |-> TRUE, v |-> v]

TimeFail == [ok |-> FALSE, v |-> Fin(0)]

\* The fields of a timestamp: the digit runs and the separator (':' or '.')
\* written before each of them (0 before the first).
RECURSIVE TimeFields(_, _, _)
TimeFields(str, i, fields) ==
  IF i > Len(str) THEN fields
  ELSE IF str[i] \in {58, 46}
       THEN TimeFields(str, i + 1, Append(fields, [sep |-> str[i], digits |-> <<>>]))
       ELSE TimeFields(str, i + 1,
                       [fields EXCEPT ![Len(fields)].digits = Append(@, str[i])])

\* The fraction of a second, right-padded to three digits.
RECURSIVE PadFraction(_)
PadFraction(frac) == IF Len(frac) >= 3 THEN frac ELSE PadFraction(Append(frac, 48))

TimeValue(hour, min, sec, frac) ==
  TimeOk(Float64(ParseUint(hour) * 3600000 + ParseUint(min) * 60000 + ParseUint(sec) * 1000
                   + ParseUint(PadFraction(frac))))

\* ParseTimespan: ^(((\d+):)?(\d+):)?((\d+)([.:](\d{1,3}))?)$ .  The hour and
\* the minute are taken when the text allows them, then the fraction.
ParseTimespan(timeSpan) ==
  The({ IF \E i \in 1..Len(f) : f[i].digits = <<>> \/ ~IsDigits(f[i].digits)
        THEN TimeFail
        ELSE IF Len(f) = 1 THEN TimeValue(<<>>, <<>>, f[1].digits, <<>>)
        ELSE IF Len(f) = 2 /\ f[2].sep = 58
             THEN TimeValue(<<>>, f[1].digits, f[2].digits, <<>>)
        ELSE IF Len(f) = 2 /\ Len(f[2].digits) <= 3
             THEN TimeValue(<<>>, <<>>, f[1].digits, f[2].digits)
        ELSE IF Len(f) = 3 /\ f[2].sep = 58 /\ f[3].sep = 58
             THEN TimeValue(f[1].digits, f[2].digits, f[3].digits, <<>>)
        ELSE IF Len(f) = 3 /\ f[2].sep = 58 /\ Len(f[3].digits) <= 3
             THEN TimeValue(<<>>, f[1].digits, f[2].digits, f[3].digits)
        ELSE IF Len(f) = 4 /\ f[2].sep = 58 /\ f[3].sep = 58
                  /\ Len(f[4].digits) <= 3
             THEN TimeValue(f[1].digits, f[2].digits, f[3].digits, f[4].digits)
        ELSE TimeFail :
        f \in {TimeFields(timeSpan, 1, <<[sep |-> 0, digits |-> <<>>]>>)} })

\* MsToTimestamp: "99:99.999" for +Inf, 0 for a negative time or NaN, else
\* the rounded time as mm:ss.mmm, with hh: in front from the first hour on.
MsToTimestamp(timeMS) ==
  IF timeMS.k = "pinf" THEN <<57, 57, 58, 57, 57, 46, 57, 57, 57>>
  ELSE The({ (IF ms \div 3600000 > 0 THEN Pad(ms \div 3600000, 2) \o <<58>> ELSE <<>>)
               \o Pad((ms \div 60000) % 60, 2) \o <<58>>
               \o Pad((ms \div 1000) % 60, 2) \o <<46>> \o Pad(ms % 1000, 3) :
             ms \in {IF FloatNegative(timeMS) \/ IsNaN(timeMS) THEN 0
                     ELSE RoundMS(timeMS)} })

(***************************************************************************)
(* Numbers in attributes (formatNumber, parseFloatNumber).  The floats of  *)
(* the model are whole quarters, written in decimal with the fraction      *)
(* .25, .5 or .75; any other text is one strconv.ParseFloat rejects.       *)
(***************************************************************************)
QuarterDigits(r) ==
  IF r = 0 THEN <<>>
  ELSE IF r = 1 THEN <<46, 50, 53>>
  ELSE IF r = 2 THEN <<46, 53>>
  ELSE <<46, 55, 53>>

formatNumber(value) ==
  IF value.k = "nan" THEN <<78, 97, 78>>
  ELSE IF value.k = "pinf" THEN <<43, 73, 110, 102>>
  ELSE IF value.k = "ninf" THEN <<45, 73, 110, 102>>
  ELSE IF value.q >= 0
       THEN FormatUint(value.q \div 4) \o QuarterDigits(value.q % 4)
       ELSE <<45>> \o FormatUint((0 - value.q) \div 4) \o QuarterDigits((0 - value.q) % 4)

\* strconv.ParseFloat of an unsigned decimal; NaN stands for its error.
ParseUnsignedFloat(str) ==
  The({ IF Len(f) = 1 /\ f[1].digits # <<>> /\ IsDigits(f[1].digits)
        THEN Float64(ParseUint(f[1].digits))
        ELSE IF Len(f) = 2 /\ f[2].sep = 46 /\ f[1].digits # <<>>
                  /\ IsDigits(f[1].digits)
                  /\ \E r \in 1..3 : <<46>> \o f[2].digits = QuarterDigits(r)
        THEN Fin(4 * ParseUint(f[1].digits)
                   + (CHOOSE r \in 1..3 : <<46>> \o f[2].digits = QuarterDigits(r)))
        ELSE NaN :
        f \in {TimeFields(str, 1, <<[sep |-> 0, digits |-> <<>>]>>)} })

Negate(f) ==
  IF f.k = "fin" THEN Fin(0 - f.q)
  ELSE IF f.k = "pinf" THEN NegInf
  ELSE IF f.k = "ninf" THEN PosInf
  ELSE f

parseFloatNumber(value) ==
  The({ IF v = <<>> THEN Fin(0)
        ELSE IF v \in {<<73, 110, 102>>, <<43, 73, 110, 102>>} THEN PosInf
        ELSE IF v = <<45, 73, 110, 102>> THEN NegInf
        ELSE IF Head(v) = 45 THEN Negate(ParseUnsignedFloat(Tail(v)))
        ELSE IF Head(v) = 43 THEN ParseUnsignedFloat(Tail(v))
        ELSE ParseUnsignedFloat(v) :
        v \in {TrimSpace(value)} })

(***************************************************************************)
(* The names and the fixed attribute values of the format, as bytes.       *)
(***************************************************************************)
Lit_tt == <<116, 116>>  \* "tt"

Lit_head == <<104, 101, 97, 100>>  \* "head"

Lit_body == <<98, 111, 100, 121>>  \* "body"

Lit_div == <<100, 105, 118>>  \* "div"

Lit_p == <<112>>  \* "p"

Lit_span == <<115, 112, 97, 110>>  \* "span"

Lit_metadata == <<109, 101, 116, 97, 100, 97, 116, 97>>  \* "metadata"

Lit_ttm_agent == <<116, 116, 109, 58, 97, 103, 101, 110, 116>>  \* "ttm:agent"

Lit_amll_meta == <<97, 109, 108, 108, 58, 109, 101, 116, 97>>  \* "amll:meta"

Lit_iTunesMetadata == <<105, 84, 117, 110, 101, 115, 77, 101, 116, 97, 100, 97, 116, 97>>  \* "iTunesMetadata"

Lit_songwriters == <<115, 111, 110, 103, 119, 114, 105, 116, 101, 114, 115>>  \* "songwriters"

Lit_songwriter == <<115, 111, 110, 103, 119, 114, 105, 116, 101, 114>>  \* "songwriter"

Lit_transliterations == <<116, 114, 97, 110, 115, 108, 105, 116, 101, 114, 97, 116, 105, 111, 110, 115>>  \* "transliterations"

Lit_transliteration == <<116, 114, 97, 110, 115, 108, 105, 116, 101, 114, 97, 116, 105, 111, 110>>  \* "transliteration"

Lit_text == <<116, 101, 120, 116>>  \* "text"

Lit_translations == <<116, 114, 97, 110, 115, 108, 97, 116, 105, 111, 110, 115>>  \* "translations"

Lit_translation == <<116, 114, 97, 110, 115, 108, 97, 116, 105, 111, 110>>  \* "translation"

Lit_begin == <<98, 101, 103, 105, 110>>  \* "begin"

Lit_end == <<101, 110, 100>>  \* "end"

Lit_key == <<107, 101, 121>>  \* "key"

Lit_value == <<118, 97, 108, 117, 101>>  \* "value"

Lit_for == <<102, 111, 114>>  \* "for"

Lit_type == <<116, 121, 112, 101>>  \* "type"

Lit_dur == <<100, 117, 114>>  \* "dur"

Lit_ttm_role == <<116, 116, 109, 58, 114, 111, 108, 101>>  \* "ttm:role"

Lit_xml_id == <<120, 109, 108, 58, 105, 100>>  \* "xml:id"

Lit_xml_lang == <<120, 109, 108, 58, 108, 97, 110, 103>>  \* "xml:lang"

Lit_itunes_timing == <<105, 116, 117, 110, 101, 115, 58, 116, 105, 109, 105, 110, 103>>  \* "itunes:timing"

Lit_itunes_key == <<105, 116, 117, 110, 101, 115, 58, 107, 101, 121>>  \* "itunes:key"

Lit_amll_obscene == <<97, 109, 108, 108, 58, 111, 98, 115, 99, 101, 110, 101>>  \* "amll:obscene"

Lit_amll_empty_beat == <<97, 109, 108, 108, 58, 101, 109, 112, 116, 121, 45, 98, 101, 97, 116>>  \* "amll:empty-beat"

Lit_person == <<112, 101, 114, 115, 111, 110>>  \* "person"

Lit_other == <<111, 116, 104, 101, 114>>  \* "other"

Lit_v1 == <<118, 49>>  \* "v1"

Lit_v2 == <<118, 50>>  \* "v2"

Lit_x_bg == <<120, 45, 98, 103>>  \* "x-bg"

Lit_x_translation == <<120, 45, 116, 114, 97, 110, 115, 108, 97, 116, 105, 111, 110>>  \* "x-translation"

Lit_x_roman == <<120, 45, 114, 111, 109, 97, 110>>  \* "x-roman"

Lit_zh_CN == <<122, 104, 45, 67, 78>>  \* "zh-CN"

Lit_true == <<116, 114, 117, 101>>  \* "true"

Lit_None == <<78, 111, 110, 101>>  \* "None"

Lit_Line == <<76, 105, 110, 101>>  \* "Line"

Lit_Word == <<87, 111, 114, 100>>  \* "Word"

Lit_L == <<76>>  \* "L"

Lit_meta == <<109, 101, 116, 97>>  \* "meta"

Lit_agent == <<97, 103, 101, 110, 116>>  \* "agent"

\* "(" ")" and their full-width forms U+FF08 and U+FF09 in UTF-8.
LeftParen == <<40>>

RightParen == <<41>>

fullwidthLeftParen == <<239, 188, 136>>

fullwidthRightParen == <<239, 188, 137>>

(***************************************************************************)
(* xml_node.go.  A node is a document, an element or a text.  A name is    *)
(* written prefix:local; the namespace of a parsed name stands as the      *)
(* prefix it was written with (the documents bind the prefixes ttm, amll,  *)
(* itunes and xml as ExportTTMLText declares them; the declarations        *)
(* themselves, which parseXMLDocument keeps out of the tree, are not       *)
(* written).                                                               *)
(***************************************************************************)
\* The first index of ch in str from index `from` on, 0 when there is none.
IndexFrom(str, from, ch) ==
  IF \E i \in from..Len(str) : str[i] = ch
  THEN CHOOSE i \in from..Len(str) :
         str[i] = ch /\ \A j \in from..(i - 1) : str[j] # ch
  ELSE 0

\* name[idx+1:] for idx the first ':' of name, the whole name without one.
LocalOf(name) ==
  IF IndexFrom(name, 1, 58) = 0 THEN name
  ELSE SubSeq(name, IndexFrom(name, 1, 58) + 1, Len(name))

\* The prefix of a name, empty without a ':'.
PrefixOf(name) ==
  IF IndexFrom(name, 1, 58) = 0 THEN <<>>
  ELSE SubSeq(name, 1, IndexFrom(name, 1, 58) - 1)

xmlAttr(name, local, namespace, value) ==
  [Name |-> name, Local |-> local, Namespace |-> namespace, Value |-> value]

xmlNode(type, name, local, namespace, attrs, children, text) ==
  [Type |-> type, Name |-> name, Local |-> local, Namespace |-> namespace,
   Attrs |-> attrs, Children |-> children, Text |-> text]

newDocument == xmlNode("document", <<>>, <<>>, <<>>, <<>>, <<>>, <<>>)

newElement(name) == xmlNode("element", name, LocalOf(name), <<>>, <<>>, <<>>, <<>>)

newText(text) == xmlNode("text", <<>>, <<>>, <<>>, <<>>, <<>>, text)

appendChild(n, child) == [n EXCEPT !.Children = Append(@, child)]

setAttr(n, name, value) ==
  IF \E i \in 1..Len(n.Attrs) : n.Attrs[i].Name = name
  THEN [n EXCEPT !.Attrs[SetMin({i \in 1..Len(n.Attrs) : n.Attrs[i].Name = name})].Value = value]
  ELSE [n EXCEPT !.Attrs = Append(@, xmlAttr(name, LocalOf(name), <<>>, value))]

\* (value, ok) of the attribute lookups.
AttrFound(value) == [ok |-> TRUE, v |-> value]

AttrMissing == [ok |-> FALSE, v |-> <<>>]

FirstAttr(n, matching) ==
  IF matching = {} THEN AttrMissing ELSE AttrFound(n.Attrs[SetMin(matching)].Value)

attrValue(n, name) ==
  FirstAttr(n, {i \in 1..Len(n.Attrs) : n.Attrs[i].Name = name})

attrValueLocal(n, local) ==
  FirstAttr(n, {i \in 1..Len(n.Attrs) :
                  n.Attrs[i].Local = local /\ n.Attrs[i].Namespace = <<>>})

attrValueNS(n, namespace, local, qualified) ==
  IF qualified # <<>> /\ attrValue(n, qualified).ok THEN attrValue(n, qualified)
  ELSE IF namespace = <<>> THEN attrValueLocal(n, local)
  ELSE FirstAttr(n, {i \in 1..Len(n.Attrs) :
                       n.Attrs[i].Local = local /\ n.Attrs[i].Namespace = namespace})

hasAttrLocal(n, local) == attrValueLocal(n, local).ok

RECURSIVE textContent(_)
textContent(n) ==
  IF n.Type = "text" THEN n.Text
  ELSE Flatten([i \in 1..Len(n.Children) |-> textContent(n.Children[i])])

nameMatches(node, name) == node.Name = name \/ node.Local = name

\* strings.NewReplacer("&", "&amp;", "<", "&lt;") and, for attributes, also
\* "\"" to "&quot;".
EntityAmp == <<38, 97, 109, 112, 59>>

EntityLt == <<38, 108, 116, 59>>

EntityGt == <<38, 103, 116, 59>>

EntityQuot == <<38, 113, 117, 111, 116, 59>>

EntityApos == <<38, 97, 112, 111, 115, 59>>

escapeText(str) ==
  Flatten([i \in 1..Len(str) |->
             IF str[i] = 38 THEN EntityAmp
             ELSE IF str[i] = 60 THEN EntityLt
             ELSE <<str[i]>>])

escapeAttr(str) ==
  Flatten([i \in 1..Len(str) |->
             IF str[i] = 38 THEN EntityAmp
             ELSE IF str[i] = 60 THEN EntityLt
             ELSE IF str[i] = 34 THEN EntityQuot
             ELSE <<str[i]>>])

\* serializeNode with pretty = false.
RECURSIVE serializeNode(_)
serializeNode(node) ==
  IF node.Type = "document"
  THEN Flatten([i \in 1..Len(node.Children) |-> serializeNode(node.Children[i])])
  ELSE IF node.Type = "text" THEN escapeText(node.Text)
  ELSE <<60>> \o node.Name
         \o Flatten([i \in 1..Len(node.Attrs) |->
                       <<32>> \o node.Attrs[i].Name \o <<61, 34>>
                         \o escapeAttr(node.Attrs[i].Value) \o <<34>>])
         \o (IF Len(node.Children) = 0 THEN <<47, 62>>
             ELSE <<62>>
                    \o Flatten([i \in 1..Len(node.Children) |->
                                  serializeNode(node.Children[i])])
                    \o <<60, 47>> \o node.Name \o <<62>>)

serializeDocument(doc) == serializeNode(doc)

innerXML(n) ==
  Flatten([i \in 1..Len(n.Children) |-> serializeNode(n.Children[i])])

(***************************************************************************)
(* encoding/xml as parseXMLDocument uses it: decoder.Token() over a text   *)
(* of elements, attributes in double quotes and character data with the    *)
(* five predefined entities.                                               *)
(***************************************************************************)
Entities ==
  {[text |-> EntityAmp, char |-> 38], [text |-> EntityLt, char |-> 60],
   [text |-> EntityGt, char |-> 62], [text |-> EntityQuot, char |-> 34],
   [text |-> EntityApos, char |-> 39]}

\* Every '&' of the text starts one of the entities.
RECURSIVE EntitiesValid(_)
EntitiesValid(str) ==
  IF str = <<>> THEN TRUE
  ELSE IF Head(str) # 38 THEN EntitiesValid(Tail(str))
  ELSE \E e \in Entities :
         HasPrefix(str, e.text) /\ EntitiesValid(TrimPrefix(str, e.text))

RECURSIVE Unescape(_)
Unescape(str) ==
  IF str = <<>> THEN <<>>
  ELSE IF Head(str) = 38 /\ \E e \in Entities : HasPrefix(str, e.text)
       THEN The({ <<e.char>> \o Unescape(TrimPrefix(str, e.text)) :
                  e \in {x \in Entities : HasPrefix(str, x.text)} })
       ELSE <<Head(str)>> \o Unescape(Tail(str))

Token(kind, name, attrs, text, next) ==
  [kind |-> kind, name |-> name, attrs |-> attrs, text |-> text, next |-> next]

SyntaxError == Token("error", <<>>, <<>>, <<>>, 0)

\* The index of the '>' that ends the tag opened before index pos, quoted
\* values skipped; 0 when the text ends first.
EndsTag(text, pos, i) ==
  text[i] = 62 /\ Cardinality({j \in pos..(i - 1) : text[j] = 34}) % 2 = 0

TagEnd(text, pos) ==
  IF \E i \in pos..Len(text) : EndsTag(text, pos, i)
  THEN CHOOSE i \in pos..Len(text) :
         EndsTag(text, pos, i) /\ \A j \in pos..(i - 1) : ~EndsTag(text, pos, j)
  ELSE 0

\* The attributes written in a tag after its name: name="value" separated
\* by spaces.  ok is false for anything else.
RECURSIVE TagAttrs(_, _, _)
TagAttrs(inner, i, attrs) ==
  IF i > Len(inner) THEN [ok |-> TRUE, attrs |-> attrs]
  ELSE IF IsSpace(inner[i]) THEN TagAttrs(inner, i + 1, attrs)
  ELSE The({ IF eq = 0 \/ eq = i \/ eq + 1 > Len(inner) \/ inner[eq + 1] # 34
             THEN [ok |-> FALSE, attrs |-> attrs]
             ELSE The({ IF close = 0 \/ ~EntitiesValid(SubSeq(inner, eq + 2, close - 1))
                        THEN [ok |-> FALSE, attrs |-> attrs]
                        ELSE TagAttrs(inner, close + 1,
                               Append(attrs,
                                 xmlAttr(SubSeq(inner, i, eq - 1),
                                         LocalOf(SubSeq(inner, i, eq - 1)),
                                         PrefixOf(SubSeq(inner, i, eq - 1)),
                                         Unescape(SubSeq(inner, eq + 2, close - 1))))) :
                        close \in {IndexFrom(inner, eq + 2, 34)} }) :
             eq \in {IndexFrom(inner, i, 61)} })

\* The end of the name that starts a tag's inside.
NameEnd(inner) ==
  IF \E i \in 1..Len(inner) : IsSpace(inner[i])
  THEN SetMin({i \in 1..Len(inner) : IsSpace(inner[i])}) - 1
  ELSE Len(inner)

\* A start tag or an empty-element tag from its inside.
StartToken(kind, inner, next) ==
  The({ IF NameEnd(inner) = 0 \/ ~a.ok THEN SyntaxError
        ELSE Token(kind, SubSeq(inner, 1, NameEnd(inner)), a.attrs, <<>>, next) :
        a \in {TagAttrs(inner, NameEnd(inner) + 1, <<>>)} })

\* decoder.Token() at index pos.
NextToken(text, pos) ==
  IF pos > Len(text) THEN Token("eof", <<>>, <<>>, <<>>, pos)
  ELSE IF text[pos] = 60
  THEN The({ IF gt = 0 \/ gt = pos + 1 THEN SyntaxError
             ELSE IF text[pos + 1] = 47
             THEN Token("end", SubSeq(text, pos + 2, gt - 1), <<>>, <<>>, gt + 1)
             ELSE IF text[gt - 1] = 47
             THEN StartToken("empty", SubSeq(text, pos + 1, gt - 2), gt + 1)
             ELSE StartToken("start", SubSeq(text, pos + 1, gt - 1), gt + 1) :
             gt \in {TagEnd(text, pos + 1)} })
  ELSE The({ IF ~EntitiesValid(SubSeq(text, pos, lt - 1)) THEN SyntaxError
             ELSE Token("text", <<>>, <<>>, Unescape(SubSeq(text, pos, lt - 1)), lt) :
             lt \in {IF IndexFrom(text, pos, 60) = 0 THEN Len(text) + 1
                     ELSE IndexFrom(text, pos, 60)} })

\* The element a start tag opens.
ElementOf(tok, children) ==
  xmlNode("element", tok.name, LocalOf(tok.name), PrefixOf(tok.name),
          tok.attrs, children, <<>>)

\* CharData under a parent: dropped when empty, added to a text node that
\* ends the children, else a new text node.
AppendText(children, text) ==
  IF text = <<>> THEN children
  ELSE IF children # <<>> /\ children[Len(children)].Type = "text"
  THEN [children EXCEPT ![Len(children)].Text = @ \o text]
  ELSE Append(children, newText(text))

\* parseXMLDocument as a machine: the stack of the open nodes, the document
\* at its bottom, and the index of the next token.  st is "run", "eof" or
\* "error" (the decoder returned an error: a malformed tag or entity, an
\* end tag that does not close the open element, a text that ends inside
\* an element).
parserStart == [st |-> "run", stack |-> <<newDocument>>, pos |-> 1]

\* parent.appendChild(node) for the node on top of the stack.
AppendToTop(stack, node) ==
  [stack EXCEPT ![Len(stack)].Children = Append(@, node)]

\* An end tag: the element it closes joins the children of its parent.
CloseTop(stack) ==
  AppendToTop(SubSeq(stack, 1, Len(stack) - 1), stack[Len(stack)])

ParseStep(s, text) ==
  IF s.st # "run" THEN s
  ELSE
  The({ IF tok.kind = "error" THEN [s EXCEPT !.st = "error"]
        ELSE IF tok.kind = "eof"
        THEN [s EXCEPT !.st = IF Len(s.stack) = 1 THEN "eof" ELSE "error"]
        ELSE IF tok.kind = "text"
        THEN [s EXCEPT !.pos = tok.next,
                       !.stack[Len(s.stack)].Children = AppendText(@, tok.text)]
        ELSE IF tok.kind = "empty"
        THEN [s EXCEPT !.pos = tok.next,
                       !.stack = AppendToTop(@, ElementOf(tok, <<>>))]
        ELSE IF tok.kind = "start"
        THEN [s EXCEPT !.pos = tok.next,
                       !.stack = Append(@, ElementOf(tok, <<>>))]
        ELSE IF Len(s.stack) > 1 /\ s.stack[Len(s.stack)].Name = tok.name
        THEN [s EXCEPT !.pos = tok.next, !.stack = CloseTop(@)]
        ELSE [s EXCEPT !.st = "error"] :
        tok \in {NextToken(text, s.pos)} })

\* The loop over the tokens, eight at a time.
ParseSteps(s, text) ==
  ParseStep(ParseStep(ParseStep(ParseStep(
    ParseStep(ParseStep(ParseStep(ParseStep(s, text), text), text), text),
    text), text), text), text)

RECURSIVE RunParser(_, _)
RunParser(s, text) == IF s.st # "run" THEN s ELSE RunParser(ParseSteps(s, text), text)

ParsedXML(ok, doc) == [ok |-> ok, doc |-> doc]

parseXMLDocument(text) ==
  The({ IF end.st = "eof" THEN ParsedXML(TRUE, end.stack[1])
        ELSE ParsedXML(FALSE, newDocument) :
        end \in {RunParser(parserStart, text)} })

\* findFrom, findElementsByPath, findAllElements, findDescendantElements,
\* hasDescendantTag: the matching nodes in document order.
RECURSIVE findFrom(_, _)
findFrom(node, path) ==
  IF Len(path) = 0 THEN <<node>>
  ELSE Flatten([i \in 1..Len(node.Children) |->
                  IF node.Children[i].Type = "element"
                       /\ nameMatches(node.Children[i], path[1])
                  THEN findFrom(node.Children[i], Tail(path))
                  ELSE <<>>])

RECURSIVE findElementsByPath(_, _)
findElementsByPath(root, path) ==
  IF Len(path) = 0 THEN <<>>
  ELSE IF root.Type = "document"
  THEN Flatten([i \in 1..Len(root.Children) |->
                  findElementsByPath(root.Children[i], path)])
  ELSE IF root.Type # "element" THEN <<>>
  ELSE (IF nameMatches(root, path[1]) THEN findFrom(root, Tail(path)) ELSE <<>>)
         \o Flatten([i \in 1..Len(root.Children) |->
                       findElementsByPath(root.Children[i], path)])

RECURSIVE findAllElements(_)
findAllElements(root) ==
  (IF root.Type = "element" THEN <<root>> ELSE <<>>)
    \o Flatten([i \in 1..Len(root.Children) |-> findAllElements(root.Children[i])])

\* The descendants of root that are spans with begin and end attributes
\* (the match function of the one caller).
TimedSpan(n) ==
  nameMatches(n, Lit_span) /\ hasAttrLocal(n, Lit_begin) /\ hasAttrLocal(n, Lit_end)

RECURSIVE TimedSpansFrom(_)
TimedSpansFrom(node) ==
  (IF node.Type = "element" /\ TimedSpan(node) THEN <<node>> ELSE <<>>)
    \o Flatten([i \in 1..Len(node.Children) |-> TimedSpansFrom(node.Children[i])])

findDescendantElements(root) ==
  Flatten([i \in 1..Len(root.Children) |-> TimedSpansFrom(root.Children[i])])

hasDescendantTag(root, tag) ==
  \E i \in 1..Len(root.Children) :
    \E j \in 1..Len(findAllElements(root.Children[i])) :
      nameMatches(findAllElements(root.Children[i])[j], tag)

Lit_role == <<114, 111, 108, 101>>  \* "role"

Lit_id == <<105, 100>>  \* "id"

Lit_obscene == <<111, 98, 115, 99, 101, 110, 101>>  \* "obscene"

Lit_empty_beat == <<101, 109, 112, 116, 121, 45, 98, 101, 97, 116>>  \* "empty-beat"

\* The namespaces, each standing as the prefix the documents bind to it.
nsTTM == <<116, 116, 109>>

nsAMLL == <<97, 109, 108, 108>>

nsItunes == <<105, 116, 117, 110, 101, 115>>

nsXML == <<120, 109, 108>>

(***************************************************************************)
(* ParseLyric.                                                             *)
(***************************************************************************)
romanWord(start, end, text) == [StartTime |-> start, EndTime |-> end, Text |-> text]

lineMetadata(main, bg) == [Main |-> main, Bg |-> bg]

wordRomanMetadata(main, bg) == [Main |-> main, Bg |-> bg]

\* Go maps with string keys.
EmptyMap == [k \in {} |-> <<>>]

MapPut(m, key, value) ==
  [k \in DOMAIN m \cup {key} |-> IF k = key THEN value ELSE m[k]]

MapDelete(m, key) == [k \in DOMAIN m \ {key} |-> m[k]]

MapHas(m, key) == key \in DOMAIN m

\* One leading "(" and one trailing ")", full-width or not, taken off.
StripLeftParen(str) ==
  IF HasPrefix(str, fullwidthLeftParen) THEN TrimPrefix(str, fullwidthLeftParen)
  ELSE TrimPrefix(str, LeftParen)

StripRightParen(str) ==
  IF HasSuffix(str, fullwidthRightParen) THEN TrimSuffix(str, fullwidthRightParen)
  ELSE TrimSuffix(str, RightParen)

trimParens(text) == TrimSpace(StripRightParen(StripLeftParen(TrimSpace(text))))

RoleOf(node) == attrValueNS(node, nsTTM, Lit_role, Lit_ttm_role).v

extractLineMetadata(textEl) ==
  lineMetadata(
    TrimSpace(Flatten([i \in 1..Len(textEl.Children) |->
                         IF textEl.Children[i].Type = "text"
                         THEN textEl.Children[i].Text ELSE <<>>])),
    trimParens(TrimSpace(Flatten([i \in 1..Len(textEl.Children) |->
                         IF textEl.Children[i].Type = "element"
                              /\ RoleOf(textEl.Children[i]) = Lit_x_bg
                         THEN textContent(textEl.Children[i]) ELSE <<>>]))))

\* The key of a <text for="..."> element, empty when it is to be skipped.
ForKey(textEl) == attrValueLocal(textEl, Lit_for).v

TranslationPath == <<Lit_iTunesMetadata, Lit_translations, Lit_translation, Lit_text>>

TransliterationPath ==
  <<Lit_iTunesMetadata, Lit_transliterations, Lit_transliteration, Lit_text>>

SongwriterPath == <<Lit_iTunesMetadata, Lit_songwriters, Lit_songwriter>>

\* ParseLyric lines 43-53: the line translations by key.
RECURSIVE TranslationsLoop(_, _, _)
TranslationsLoop(els, i, itunesTranslations) ==
  IF i > Len(els) THEN itunesTranslations
  ELSE TranslationsLoop(els, i + 1,
         IF ForKey(els[i]) # <<>>
              /\ extractLineMetadata(els[i]) # lineMetadata(<<>>, <<>>)
         THEN MapPut(itunesTranslations, ForKey(els[i]), extractLineMetadata(els[i]))
         ELSE itunesTranslations)

\* ParseLyric lines 155-166: a translation with a span under it is a timed
\* translation and leaves the plain ones.
RECURSIVE TimedTranslationsLoop(_, _, _)
TimedTranslationsLoop(els, i, maps) ==
  IF i > Len(els) THEN maps
  ELSE TimedTranslationsLoop(els, i + 1,
         IF ForKey(els[i]) # <<>>
              /\ extractLineMetadata(els[i]) # lineMetadata(<<>>, <<>>)
              /\ hasDescendantTag(els[i], Lit_span)
         THEN [timed |-> MapPut(maps.timed, ForKey(els[i]), extractLineMetadata(els[i])),
               plain |-> MapDelete(maps.plain, ForKey(els[i]))]
         ELSE maps)

\* ParseLyric lines 68-130: the children of one transliteration text.
RomanStart ==
  [ok |-> TRUE, mainWords |-> <<>>, bgWords |-> <<>>, lineRomanMain |-> <<>>,
   lineRomanBg |-> <<>>, isWordByWord |-> FALSE]

\* begin and end of a node as times; ok is false when either fails to parse.
BeginEnd(node) ==
  The({ [ok |-> b.ok /\ e.ok, begin |-> b.v, end |-> e.v] :
        b \in {ParseTimespan(attrValueLocal(node, Lit_begin).v)},
        e \in {ParseTimespan(attrValueLocal(node, Lit_end).v)} })

RECURSIVE BgRomanWords(_, _, _)
BgRomanWords(spans, i, acc) ==
  IF i > Len(spans) \/ ~acc.ok THEN acc
  ELSE BgRomanWords(spans, i + 1,
         The({ IF ~t.ok THEN [acc EXCEPT !.ok = FALSE]
               ELSE [acc EXCEPT !.bgWords =
                       Append(@, romanWord(t.begin, t.end,
                                   trimParens(TrimSpace(textContent(spans[i])))))] :
               t \in {BeginEnd(spans[i])} }))

RomanChild(acc, node) ==
  IF node.Type = "text" THEN [acc EXCEPT !.lineRomanMain = @ \o node.Text]
  ELSE IF node.Type # "element" THEN acc
  ELSE IF RoleOf(node) = Lit_x_bg
  THEN IF Len(findDescendantElements(node)) > 0
       THEN BgRomanWords(findDescendantElements(node), 1,
                         [acc EXCEPT !.isWordByWord = TRUE])
       ELSE [acc EXCEPT !.lineRomanBg = @ \o textContent(node)]
  ELSE IF hasAttrLocal(node, Lit_begin) /\ hasAttrLocal(node, Lit_end)
  THEN The({ IF ~t.ok THEN [acc EXCEPT !.ok = FALSE, !.isWordByWord = TRUE]
             ELSE [acc EXCEPT !.isWordByWord = TRUE,
                              !.mainWords =
                                Append(@, romanWord(t.begin, t.end, textContent(node)))] :
             t \in {BeginEnd(node)} })
  ELSE acc

RECURSIVE RomanChildren(_, _, _)
RomanChildren(children, i, acc) ==
  IF i > Len(children) \/ ~acc.ok THEN acc
  ELSE RomanChildren(children, i + 1, RomanChild(acc, children[i]))

\* ParseLyric lines 62-148: the line and the word romanizations by key.
RECURSIVE RomanizationsLoop(_, _, _)
RomanizationsLoop(els, i, maps) ==
  IF i > Len(els) \/ ~maps.ok THEN maps
  ELSE IF ForKey(els[i]) = <<>> THEN RomanizationsLoop(els, i + 1, maps)
  ELSE RomanizationsLoop(els, i + 1,
         The({ IF ~r.ok THEN [maps EXCEPT !.ok = FALSE]
               ELSE [ok |-> TRUE,
                     word |-> IF r.isWordByWord
                              THEN MapPut(maps.word, ForKey(els[i]),
                                          wordRomanMetadata(r.mainWords, r.bgWords))
                              ELSE maps.word,
                     line |-> IF TrimSpace(r.lineRomanMain) # <<>>
                                   \/ trimParens(TrimSpace(r.lineRomanBg)) # <<>>
                              THEN MapPut(maps.line, ForKey(els[i]),
                                          lineMetadata(TrimSpace(r.lineRomanMain),
                                                       trimParens(TrimSpace(r.lineRomanBg))))
                              ELSE maps.line] :
               r \in {RomanChildren(els[i].Children, 1, RomanStart)} }))

\* ParseLyric lines 170-200: the amll:meta elements, the values of one key
\* gathered under its first entry.
AddMetaValue(metadata, key, value) ==
  IF \E i \in 1..Len(metadata) : metadata[i].Key = key
  THEN [metadata EXCEPT
          ![SetMin({i \in 1..Len(metadata) : metadata[i].Key = key})].Value =
             Append(@, value)]
  ELSE Append(metadata, TTMLMetadata(key, <<value>>, FALSE))

IsMeta(el) ==
  /\ el.Local = Lit_meta
  /\ ~(el.Name # Lit_amll_meta /\ el.Namespace # nsAMLL)
  /\ attrValueLocal(el, Lit_key).v # <<>>
  /\ attrValueLocal(el, Lit_value).v # <<>>

RECURSIVE MetadataLoop(_, _, _)
MetadataLoop(metas, i, metadata) ==
  IF i > Len(metas) THEN metadata
  ELSE MetadataLoop(metas, i + 1,
         AddMetaValue(metadata, attrValueLocal(metas[i], Lit_key).v,
                      attrValueLocal(metas[i], Lit_value).v))

\* ParseLyric lines 202-219: the songwriters, one entry after the others.
SongwriterValues(els) ==
  Flatten([i \in 1..Len(els) |->
             IF TrimSpace(textContent(els[i])) # <<>>
             THEN <<TrimSpace(textContent(els[i]))>> ELSE <<>>])

WithSongwriters(metadata, els) ==
  IF Len(SongwriterValues(els)) > 0
  THEN Append(metadata, TTMLMetadata(Lit_songwriter, SongwriterValues(els), FALSE))
  ELSE metadata

\* ParseLyric lines 221-235: the id of the first agent of type person that
\* has one, "v1" without any.
IsMainAgent(el) ==
  /\ el.Local = Lit_agent
  /\ ~(el.Name # Lit_ttm_agent /\ el.Namespace # nsTTM)
  /\ attrValueLocal(el, Lit_type).v = Lit_person
  /\ attrValueNS(el, nsXML, Lit_id, Lit_xml_id).v # <<>>

MainAgentID(els) ==
  IF Len(SelectSeq(els, IsMainAgent)) > 0
  THEN attrValueNS(SelectSeq(els, IsMainAgent)[1], nsXML, Lit_id, Lit_xml_id).v
  ELSE Lit_v1

\* parseLineElement (ParseLyric lines 240-488).  ctx holds what the lines
\* read from the head of the document; st the lines parsed so far, the id
\* counter and whether an error has been returned.
LineState(ok, lines, uid) == [ok |-> ok, lines |-> lines, uid |-> uid]

\* A text node as a word: the times of the line unless the text is blank.
WordOfText(acc, wordNode) ==
  [acc EXCEPT
     !.uid = newUIDCounter(@),
     !.line.Words =
        Append(@, LyricWord(newUID(acc.uid),
                            IF TrimSpace(wordNode.Text) # <<>>
                            THEN acc.line.StartTime ELSE Fin(0),
                            IF TrimSpace(wordNode.Text) # <<>>
                            THEN acc.line.EndTime ELSE Fin(0),
                            wordNode.Text, FALSE, Fin(0), <<>>, FALSE))]

\* The romanized words still to be matched that have these times.
RomanMatches(roman, start, end) ==
  {i \in 1..Len(roman) : roman[i].StartTime = start /\ roman[i].EndTime = end}

RemoveAt(seq, i) == SubSeq(seq, 1, i - 1) \o SubSeq(seq, i + 1, Len(seq))

EmptyBeatOf(wordNode) ==
  The({ IF eb.ok /\ eb.v # <<>> THEN parseFloatNumber(eb.v) ELSE Fin(0) :
        eb \in {attrValueNS(wordNode, nsAMLL, Lit_empty_beat, Lit_amll_empty_beat)} })

ObsceneOf(wordNode) ==
  attrValueNS(wordNode, nsAMLL, Lit_obscene, Lit_amll_obscene) = AttrFound(Lit_true)

\* An element with begin and end as a word.
WordOfSpan(acc, wordNode) ==
  The({ IF ~t.ok THEN [acc EXCEPT !.ok = FALSE]
        ELSE The({ [acc EXCEPT
                      !.uid = newUIDCounter(@),
                      !.roman = IF m = {} THEN @ ELSE RemoveAt(@, SetMin(m)),
                      !.line.Words =
                         Append(@, LyricWord(newUID(acc.uid), t.begin, t.end,
                                             textContent(wordNode),
                                             ObsceneOf(wordNode),
                                             EmptyBeatOf(wordNode),
                                             IF m = {} THEN <<>>
                                             ELSE acc.roman[SetMin(m)].Text,
                                             FALSE))] :
                   m \in {IF Len(acc.roman) > 0
                          THEN RomanMatches(acc.roman, t.begin, t.end)
                          ELSE {}} }) :
        t \in {BeginEnd(wordNode)} })

\* The envelope of the words that are not blank (+Inf and 0 without any).
NonBlankWords(words) == {i \in 1..Len(words) : TrimSpace(words[i].Word) # <<>>}

WordsEnvelope(line) ==
  IF NonBlankWords(line.Words) = {}
  THEN [line EXCEPT !.StartTime = PosInf, !.EndTime = Fin(0)]
  ELSE [line EXCEPT
          !.StartTime =
             Fin(SetMin({line.Words[i].StartTime.q : i \in NonBlankWords(line.Words)})),
          !.EndTime =
             Fin(SetMax({0} \cup {line.Words[i].EndTime.q :
                                    i \in NonBlankWords(line.Words)}))]

\* A background line loses the "(" that starts its first word and the ")"
\* that ends its last, and the word with it when nothing else is in it.
StripFirstWord(words) ==
  IF Len(words) > 0 /\ (HasPrefix(words[1].Word, fullwidthLeftParen)
                          \/ HasPrefix(words[1].Word, LeftParen))
  THEN IF StripLeftParen(words[1].Word) = <<>> THEN Tail(words)
       ELSE [words EXCEPT ![1].Word = StripLeftParen(@)]
  ELSE words

StripLastWord(words) ==
  IF Len(words) > 0 /\ (HasSuffix(words[Len(words)].Word, fullwidthRightParen)
                          \/ HasSuffix(words[Len(words)].Word, RightParen))
  THEN IF StripRightParen(words[Len(words)].Word) = <<>>
       THEN SubSeq(words, 1, Len(words) - 1)
       ELSE [words EXCEPT ![Len(words)].Word = StripRightParen(@)]
  ELSE words

StripBGParens(line) ==
  IF line.IsBG THEN [line EXCEPT !.Words = StripLastWord(StripFirstWord(@))]
  ELSE line

\* The line goes after the lines parsed so far, but before the background
\* line parsed from one of its children.
AppendLine(lyricLines, line, haveBG) ==
  IF haveBG /\ Len(lyricLines) > 0
  THEN Append(Append(SubSeq(lyricLines, 1, Len(lyricLines) - 1), line),
              lyricLines[Len(lyricLines)])
  ELSE Append(lyricLines, line)

\* The key of a line: its itunes:key attribute, the key of the parent for
\* a background line.
ItunesKeyOf(lineEl, isBG, parentItunesKey) ==
  IF isBG THEN parentItunesKey
  ELSE attrValueNS(lineEl, nsItunes, Lit_key, Lit_itunes_key).v

PickLine(meta, isBG) == IF isBG THEN meta.Bg ELSE meta.Main

\* The line as it stands before its children are read.
StartLine(ctx, uid, lineEl, isBG, isDuet, itunesKey, start, end) ==
  LyricLine(newUID(uid), <<>>,
            IF itunesKey # <<>> /\ MapHas(ctx.timed, itunesKey)
            THEN PickLine(ctx.timed[itunesKey], isBG)
            ELSE IF itunesKey # <<>> /\ MapHas(ctx.plain, itunesKey)
            THEN PickLine(ctx.plain[itunesKey], isBG)
            ELSE <<>>,
            IF itunesKey # <<>> /\ MapHas(ctx.line, itunesKey)
            THEN PickLine(ctx.line[itunesKey], isBG)
            ELSE <<>>,
            isBG,
            IF isBG THEN isDuet
            ELSE attrValueNS(lineEl, nsTTM, Lit_agent, Lit_ttm_agent).v
                   \notin {<<>>, ctx.mainAgentID},
            start, end, FALSE)

AvailableRomanWords(ctx, isBG, itunesKey) ==
  IF itunesKey # <<>> /\ MapHas(ctx.word, itunesKey)
  THEN PickLine(ctx.word[itunesKey], isBG)
  ELSE <<>>

AttrPresent(n, local) == attrValueLocal(n, local).ok /\ attrValueLocal(n, local).v # <<>>

RECURSIVE parseLineElement(_, _, _, _, _, _)
RECURSIVE LineChildren(_, _, _, _, _)

LineChild(ctx, acc, wordNode, itunesKey) ==
  IF wordNode.Type = "text" THEN WordOfText(acc, wordNode)
  ELSE IF wordNode.Type # "element" THEN acc
  ELSE IF nameMatches(wordNode, Lit_span) /\ RoleOf(wordNode) # <<>>
  THEN IF RoleOf(wordNode) = Lit_x_bg
       THEN The({ [acc EXCEPT !.ok = bg.ok, !.lines = bg.lines, !.uid = bg.uid,
                              !.haveBG = TRUE] :
                  bg \in {parseLineElement(ctx, LineState(TRUE, acc.lines, acc.uid),
                                           wordNode, TRUE, acc.line.IsDuet, itunesKey)} })
       ELSE IF RoleOf(wordNode) = Lit_x_translation /\ acc.line.TranslatedLyric = <<>>
       THEN [acc EXCEPT !.line.TranslatedLyric = innerXML(wordNode)]
       ELSE IF RoleOf(wordNode) = Lit_x_roman /\ acc.line.RomanLyric = <<>>
       THEN [acc EXCEPT !.line.RomanLyric = innerXML(wordNode)]
       ELSE acc
  ELSE IF hasAttrLocal(wordNode, Lit_begin) /\ hasAttrLocal(wordNode, Lit_end)
  THEN WordOfSpan(acc, wordNode)
  ELSE acc

LineChildren(ctx, children, i, acc, itunesKey) ==
  IF i > Len(children) \/ ~acc.ok THEN acc
  ELSE LineChildren(ctx, children, i + 1,
                    LineChild(ctx, acc, children[i], itunesKey), itunesKey)

parseLineElement(ctx, st, lineEl, isBG, isDuet, parentItunesKey) ==
  The({ IF timed /\ ~t.ok THEN LineState(FALSE, st.lines, st.uid)
        ELSE The({ IF ~acc.ok THEN LineState(FALSE, acc.lines, acc.uid)
                   ELSE LineState(TRUE,
                          AppendLine(acc.lines,
                                     StripBGParens(IF timed THEN acc.line
                                                   ELSE WordsEnvelope(acc.line)),
                                     acc.haveBG),
                          acc.uid) :
                   acc \in {LineChildren(ctx, lineEl.Children, 1,
                              [ok |-> TRUE,
                               line |-> StartLine(ctx, st.uid, lineEl, isBG, isDuet, key,
                                                  IF timed THEN t.begin ELSE Fin(0),
                                                  IF timed THEN t.end ELSE Fin(0)),
                               roman |-> AvailableRomanWords(ctx, isBG, key),
                               haveBG |-> FALSE,
                               lines |-> st.lines,
                               uid |-> newUIDCounter(st.uid)],
                              key)} }) :
        timed \in {AttrPresent(lineEl, Lit_begin) /\ AttrPresent(lineEl, Lit_end)},
        t \in {BeginEnd(lineEl)},
        key \in {ItunesKeyOf(lineEl, isBG, parentItunesKey)} })

\* findBodyParagraphs: the p elements with begin and end in or under a body.
RECURSIVE BodyParagraphs(_, _)
BodyParagraphs(node, inBody) ==
  IF node.Type = "document"
  THEN Flatten([i \in 1..Len(node.Children) |->
                  BodyParagraphs(node.Children[i], inBody)])
  ELSE IF node.Type # "element" THEN <<>>
  ELSE (IF (inBody \/ node.Local = Lit_body) /\ node.Local = Lit_p
             /\ hasAttrLocal(node, Lit_begin) /\ hasAttrLocal(node, Lit_end)
        THEN <<node>> ELSE <<>>)
         \o Flatten([i \in 1..Len(node.Children) |->
                       BodyParagraphs(node.Children[i],
                                      inBody \/ node.Local = Lit_body)])

findBodyParagraphs(doc) == BodyParagraphs(doc, FALSE)

RECURSIVE LinesLoop(_, _, _, _)
LinesLoop(ctx, els, i, st) ==
  IF i > Len(els) \/ ~st.ok THEN st
  ELSE LinesLoop(ctx, els, i + 1,
                 parseLineElement(ctx, st, els[i], FALSE, FALSE, <<>>))

\* The result of ParseLyric: the document, or an error; uid is the id
\* counter after the call.
Parsed(ok, lyric, uid) == [ok |-> ok, lyric |-> lyric, uid |-> uid]

ParseFail(uid) == Parsed(FALSE, EmptyLyric, uid)

NoParse == Parsed(FALSE, EmptyLyric, 0)

ParseDocument(doc, uid) ==
  The({ IF ~roman.ok THEN ParseFail(uid)
        ELSE The({ IF ~st.ok THEN ParseFail(st.uid)
                   ELSE Parsed(TRUE,
                          TTMLLyric(
                            WithSongwriters(MetadataLoop(SelectSeq(findAllElements(doc), IsMeta), 1, <<>>),
                                            findElementsByPath(doc, SongwriterPath)),
                            st.lines),
                          st.uid) :
                   st \in {LinesLoop(
                             [mainAgentID |-> MainAgentID(findAllElements(doc)),
                              word |-> roman.word, line |-> roman.line,
                              timed |-> translations.timed,
                              plain |-> translations.plain],
                             findBodyParagraphs(doc), 1,
                             LineState(TRUE, <<>>, uid))} }) :
        roman \in {RomanizationsLoop(findElementsByPath(doc, TransliterationPath), 1,
                                     [ok |-> TRUE, word |-> EmptyMap, line |-> EmptyMap])},
        translations \in {TimedTranslationsLoop(
                            findElementsByPath(doc, TranslationPath), 1,
                            [timed |-> EmptyMap,
                             plain |-> TranslationsLoop(
                                         findElementsByPath(doc, TranslationPath),
                                         1, EmptyMap)])} })

ParseLyric(ttmlText, uid) ==
  The({ IF ~xml.ok THEN ParseFail(uid) ELSE ParseDocument(xml.doc, uid) :
        xml \in {parseXMLDocument(ttmlText)} })

(***************************************************************************)
(* ExportTTMLText with pretty = false.                                     *)
(***************************************************************************)
\* a < b on float64: false when either is NaN.
FloatLess(a, b) ==
  /\ ~IsNaN(a) /\ ~IsNaN(b)
  /\ \/ a.k = "ninf" /\ b.k # "ninf"
     \/ b.k = "pinf" /\ a.k # "pinf"
     \/ a.k = "fin" /\ b.k = "fin" /\ a.q < b.q

\* math.Min and math.Max.
FloatMin(a, b) ==
  IF IsNaN(a) \/ IsNaN(b) THEN NaN ELSE IF FloatLess(b, a) THEN b ELSE a

FloatMax(a, b) ==
  IF IsNaN(a) \/ IsNaN(b) THEN NaN ELSE IF FloatLess(a, b) THEN b ELSE a

IsBlank(str) == TrimSpace(str) = <<>>

AppendChildren(n, children) == [n EXCEPT !.Children = @ \o children]

\* ExportTTMLText lines 15-26: the lines in groups, a line without words
\* ending the group that is open (and left out of it).
RECURSIVE Params(_, _, _, _)
Params(lyric, i, tmp, params) ==
  IF i > Len(lyric) THEN IF Len(tmp) > 0 THEN Append(params, tmp) ELSE params
  ELSE IF Len(lyric[i].Words) = 0 /\ Len(tmp) > 0
  THEN Params(lyric, i + 1, <<>>, Append(params, tmp))
  ELSE Params(lyric, i + 1, Append(tmp, lyric[i]), params)

createWordElement(word) ==
  The({ appendChild(
          IF word.EmptyBeat # Fin(0) /\ ~IsNaN(word.EmptyBeat)
          THEN setAttr(span, Lit_amll_empty_beat, formatNumber(word.EmptyBeat))
          ELSE span,
          newText(word.Word)) :
        span \in {The({ IF word.Obscene THEN setAttr(timedSpan, Lit_amll_obscene, Lit_true)
                        ELSE timedSpan :
                        timedSpan \in {setAttr(setAttr(newElement(Lit_span), Lit_begin,
                                                       MsToTimestamp(word.StartTime)),
                                               Lit_end, MsToTimestamp(word.EndTime))} })} })

createRomanizationSpan(word) ==
  appendChild(setAttr(setAttr(newElement(Lit_span), Lit_begin,
                              MsToTimestamp(word.StartTime)),
                      Lit_end, MsToTimestamp(word.EndTime)),
              newText(word.RomanWord))

\* The number of words of a line that are not blank.
NonBlankCount(line) == Cardinality(NonBlankWords(line.Words))

\* ExportTTMLText lines 58-85.
TimingMode(lyric) ==
  IF (\A i \in 1..Len(lyric) : NonBlankCount(lyric[i]) = 0)
       \/ ~\E i \in 1..Len(lyric) : \E j \in NonBlankWords(lyric[i].Words) :
              FloatLess(lyric[i].Words[j].StartTime, lyric[i].Words[j].EndTime)
  THEN Lit_None
  ELSE IF \E i \in 1..Len(lyric) : NonBlankCount(lyric[i]) > 1 THEN Lit_Word
  ELSE Lit_Line

\* ExportTTMLText lines 177-189.
IsDynamicLyric(lyric) == \E i \in 1..Len(lyric) : NonBlankCount(lyric[i]) > 1

Agent(type, id) ==
  setAttr(setAttr(newElement(Lit_ttm_agent), Lit_type, type), Lit_xml_id, id)

\* ExportTTMLText lines 116-146: the first songwriter entry, when it has a
\* value that is not blank, as iTunesMetadata/songwriters.
SongwriterElements(metadata) ==
  IF ~\E i \in 1..Len(metadata) : metadata[i].Key = Lit_songwriter THEN <<>>
  ELSE The({ IF \A v \in 1..Len(meta.Value) : IsBlank(meta.Value[v]) THEN <<>>
             ELSE <<appendChild(newElement(Lit_iTunesMetadata),
                      AppendChildren(newElement(Lit_songwriters),
                        Flatten([v \in 1..Len(meta.Value) |->
                                   IF IsBlank(meta.Value[v]) THEN <<>>
                                   ELSE <<appendChild(newElement(Lit_songwriter),
                                            newText(TrimSpace(meta.Value[v])))>>])))>> :
             meta \in {metadata[SetMin({i \in 1..Len(metadata) :
                                          metadata[i].Key = Lit_songwriter})]} })

\* ExportTTMLText lines 149-159: every value of the other entries.
MetaElements(metadata) ==
  Flatten([i \in 1..Len(metadata) |->
             IF metadata[i].Key = Lit_songwriter THEN <<>>
             ELSE [v \in 1..Len(metadata[i].Value) |->
                     setAttr(setAttr(newElement(Lit_amll_meta), Lit_key, metadata[i].Key),
                             Lit_value, metadata[i].Value[v])]])

RoleSpan(role, text) ==
  appendChild(setAttr(newElement(Lit_span), Lit_ttm_role, role), newText(text))

TranslationSpan(text) ==
  appendChild(setAttr(setAttr(newElement(Lit_span), Lit_ttm_role, Lit_x_translation),
                      Lit_xml_lang, Lit_zh_CN),
              newText(text))

\* The translation and the romanization of a line as spans.
LyricSpans(line) ==
  (IF line.TranslatedLyric # <<>> THEN <<TranslationSpan(line.TranslatedLyric)>>
   ELSE <<>>)
    \o (IF line.RomanLyric # <<>> THEN <<RoleSpan(Lit_x_roman, line.RomanLyric)>>
        ELSE <<>>)

\* The words of a line of a dynamic lyric: a text for a blank word, a span
\* for any other.
WordNodes(words) ==
  [j \in 1..Len(words) |->
     IF IsBlank(words[j].Word) THEN newText(words[j].Word)
     ELSE createWordElement(words[j])]

\* The first child of a span, a text, with "(" before it or ")" after it.
OpenParen(span, yes) ==
  IF yes /\ Len(span.Children) > 0 /\ span.Children[1].Type = "text"
  THEN [span EXCEPT !.Children[1].Text = LeftParen \o @] ELSE span

CloseParen(span, yes) ==
  IF yes /\ Len(span.Children) > 0 /\ span.Children[1].Type = "text"
  THEN [span EXCEPT !.Children[1].Text = @ \o RightParen] ELSE span

RECURSIVE FoldMin(_, _, _)
FoldMin(words, indices, start) ==
  IF indices = {} THEN start
  ELSE FoldMin(words, indices \ {SetMin(indices)},
               FloatMin(start, words[SetMin(indices)].StartTime))

RECURSIVE FoldMax(_, _, _)
FoldMax(words, indices, start) ==
  IF indices = {} THEN start
  ELSE FoldMax(words, indices \ {SetMin(indices)},
               FloatMax(start, words[SetMin(indices)].EndTime))

\* ExportTTMLText lines 250-308: the background line under its main line.
BgLineSpan(bgLine, isDynamicLyric) ==
  AppendChildren(
    IF isDynamicLyric
    THEN The({ setAttr(setAttr(
                 AppendChildren(setAttr(newElement(Lit_span), Lit_ttm_role, Lit_x_bg),
                   [j \in 1..Len(bgLine.Words) |->
                      IF IsBlank(bgLine.Words[j].Word) THEN newText(bgLine.Words[j].Word)
                      ELSE CloseParen(OpenParen(createWordElement(bgLine.Words[j]),
                                                j = SetMin(nonBlank)),
                                      j = SetMax(nonBlank))]),
                 Lit_begin, MsToTimestamp(FoldMin(bgLine.Words, nonBlank, PosInf))),
                 Lit_end, MsToTimestamp(FoldMax(bgLine.Words, nonBlank, Fin(0)))) :
               nonBlank \in {NonBlankWords(bgLine.Words)} })
    ELSE setAttr(setAttr(
           appendChild(setAttr(newElement(Lit_span), Lit_ttm_role, Lit_x_bg),
                       newText(LeftParen \o bgLine.Words[1].Word \o RightParen)),
           Lit_begin, MsToTimestamp(bgLine.Words[1].StartTime)),
           Lit_end, MsToTimestamp(bgLine.Words[1].EndTime)),
    LyricSpans(bgLine))

\* ExportTTMLText lines 204-238, 308-324: the p element of a line.
LineP(line, bgSpans, itunesKey, isDynamicLyric) ==
  AppendChildren(
    The({ IF isDynamicLyric
          THEN setAttr(setAttr(AppendChildren(lineP, WordNodes(line.Words)),
                               Lit_begin, MsToTimestamp(line.StartTime)),
                       Lit_end, MsToTimestamp(line.EndTime))
          ELSE setAttr(setAttr(appendChild(lineP, newText(line.Words[1].Word)),
                               Lit_begin, MsToTimestamp(line.Words[1].StartTime)),
                       Lit_end, MsToTimestamp(line.Words[1].EndTime)) :
          lineP \in {setAttr(setAttr(setAttr(setAttr(newElement(Lit_p),
                         Lit_begin, MsToTimestamp(line.StartTime)),
                         Lit_end, MsToTimestamp(line.EndTime)),
                         Lit_ttm_agent, IF line.IsDuet THEN Lit_v2 ELSE Lit_v1),
                         Lit_itunes_key, itunesKey)} }),
    bgSpans \o LyricSpans(line))

HasRomanWord(words) == \E j \in 1..Len(words) : ~IsBlank(words[j].RomanWord)

romanizationEntry(key, main, bg) == [key |-> key, main |-> main, bg |-> bg]

\* ExportTTMLText lines 202-351: the lines of one group from lineIndex on.
\* acc.ok turns false when the code indexes Words[0] of a line that has no
\* words: the call panics (index out of range).
RECURSIVE ParamLines(_, _, _, _)
ParamLines(param, lineIndex, isDynamicLyric, acc) ==
  IF lineIndex > Len(param) \/ ~acc.ok THEN acc
  ELSE The({ IF ~isDynamicLyric
                  /\ (Len(param[lineIndex].Words) = 0
                        \/ (withBG /\ Len(param[lineIndex + 1].Words) = 0))
             THEN [acc EXCEPT !.ok = FALSE]
             ELSE ParamLines(param, IF withBG THEN lineIndex + 2 ELSE lineIndex + 1,
                    isDynamicLyric,
                    [ok |-> TRUE,
                     i |-> acc.i + 1,
                     entries |->
                       IF HasRomanWord(param[lineIndex].Words)
                            \/ (withBG /\ HasRomanWord(param[lineIndex + 1].Words))
                       THEN Append(acc.entries,
                              romanizationEntry(Lit_L \o FormatUint(acc.i + 1),
                                param[lineIndex].Words,
                                IF withBG THEN param[lineIndex + 1].Words ELSE <<>>))
                       ELSE acc.entries,
                     children |->
                       Append(acc.children,
                         LineP(param[lineIndex],
                               IF withBG
                               THEN <<BgLineSpan(param[lineIndex + 1], isDynamicLyric)>>
                               ELSE <<>>,
                               Lit_L \o FormatUint(acc.i + 1), isDynamicLyric))]) :
             withBG \in {lineIndex + 1 <= Len(param) /\ param[lineIndex + 1].IsBG} })

\* ExportTTMLText lines 191-354: the div elements of the groups.
RECURSIVE ParamDivs(_, _, _, _)
ParamDivs(params, p, isDynamicLyric, acc) ==
  IF p > Len(params) \/ ~acc.ok THEN acc
  ELSE ParamDivs(params, p + 1, isDynamicLyric,
         The({ [ok |-> lines.ok, i |-> lines.i, entries |-> lines.entries,
                children |->
                  Append(acc.children,
                    AppendChildren(
                      setAttr(setAttr(newElement(Lit_div), Lit_begin,
                                MsToTimestamp(params[p][1].StartTime)),
                              Lit_end,
                              MsToTimestamp(params[p][Len(params[p])].EndTime)),
                      lines.children))] :
               lines \in {ParamLines(params[p], 1, isDynamicLyric,
                                     [acc EXCEPT !.children = <<>>])} }))

\* ExportTTMLText lines 372-378: the romanized words of the main line.
RECURSIVE MainRomanNodes(_, _, _)
MainRomanNodes(words, j, children) ==
  IF j > Len(words) THEN children
  ELSE MainRomanNodes(words, j + 1,
         IF ~IsBlank(words[j].RomanWord)
         THEN Append(children, createRomanizationSpan(words[j]))
         ELSE IF IsBlank(words[j].Word) /\ Len(children) > 0
         THEN Append(children, newText(words[j].Word))
         ELSE children)

\* ExportTTMLText lines 380-421: the romanized words of the background line.
BgRomanSpan(words) ==
  The({ AppendChildren(setAttr(newElement(Lit_span), Lit_ttm_role, Lit_x_bg),
          Flatten([j \in 1..Len(words) |->
                     IF j \notin roman THEN <<>>
                     ELSE <<CloseParen(OpenParen(createRomanizationSpan(words[j]),
                                                 j = SetMin(roman)),
                                       j = SetMax(roman))>>
                            \o (IF j < Len(words) /\ IsBlank(words[j + 1].Word)
                                THEN <<newText(words[j + 1].Word)>> ELSE <<>>)])) :
        roman \in {{j \in 1..Len(words) : ~IsBlank(words[j].RomanWord)}} })

\* ExportTTMLText lines 356-429.
TransliterationElements(romanizationEntries) ==
  IF Len(romanizationEntries) = 0 THEN <<>>
  ELSE <<appendChild(newElement(Lit_iTunesMetadata),
           appendChild(newElement(Lit_transliterations),
             AppendChildren(newElement(Lit_transliteration),
               [e \in 1..Len(romanizationEntries) |->
                  AppendChildren(
                    setAttr(newElement(Lit_text), Lit_for, romanizationEntries[e].key),
                    MainRomanNodes(romanizationEntries[e].main, 1, <<>>)
                      \o (IF HasRomanWord(romanizationEntries[e].bg)
                          THEN <<BgRomanSpan(romanizationEntries[e].bg)>>
                          ELSE <<>>))])))>>

Exported(ok, text) == [ok |-> ok, text |-> text]

\* ok is false when the call panics.
ExportTTMLText(ttmlLyric) ==
  The({ IF ~divs.ok THEN Exported(FALSE, <<>>)
        ELSE Exported(TRUE,
          serializeDocument(
            appendChild(newDocument,
              AppendChildren(
                setAttr(newElement(Lit_tt), Lit_itunes_timing,
                        TimingMode(ttmlLyric.LyricLines)),
                << appendChild(newElement(Lit_head),
                     AppendChildren(newElement(Lit_metadata),
                       <<Agent(Lit_person, Lit_v1)>>
                         \o (IF \E i \in 1..Len(ttmlLyric.LyricLines) :
                                  ttmlLyric.LyricLines[i].IsDuet
                             THEN <<Agent(Lit_other, Lit_v2)>> ELSE <<>>)
                         \o SongwriterElements(ttmlLyric.Metadata)
                         \o MetaElements(ttmlLyric.Metadata)
                         \o TransliterationElements(divs.entries))),
                   AppendChildren(
                     setAttr(newElement(Lit_body), Lit_dur,
                       MsToTimestamp(
                         IF Len(ttmlLyric.LyricLines) > 0
                         THEN ttmlLyric.LyricLines[Len(ttmlLyric.LyricLines)].EndTime
                         ELSE Fin(0))),
                     divs.children) >>)))) :
        divs \in {ParamDivs(Params(ttmlLyric.LyricLines, 1, <<>>, <<>>), 1,
                            IsDynamicLyric(ttmlLyric.LyricLines),
                            [ok |-> TRUE, i |-> 0, entries |-> <<>>,
                             children |-> <<>>])} })

(***************************************************************************)
(* The bridges (binary_codec.go lines 71-86).                              *)
(***************************************************************************)
Bridged(ok, bytes, uid) == [ok |-> ok, bytes |-> bytes, uid |-> uid]

TTMLToBinary(ttmlText, uid) ==
  The({ IF ~lyric.ok THEN Bridged(FALSE, <<>>, lyric.uid)
        ELSE The({ Bridged(enc.st = "ok", enc.bytes, lyric.uid) :
                   enc \in {EncodeBinary(lyric.lyric)} }) :
        lyric \in {ParseLyric(ttmlText, uid)} })

\* st is "ok", "error" (DecodeBinary failed) or "panic".
BinaryToTTML(binaryData, uid) ==
  The({ IF lyric.st # "ok" THEN [st |-> "error", text |-> <<>>, uid |-> lyric.uid]
        ELSE The({ [st |-> IF out.ok THEN "ok" ELSE "panic", text |-> out.text,
                    uid |-> lyric.uid] :
                   out \in {ExportTTMLText(lyric.doc)} }) :
        lyric \in {DecodeBinary(binaryData, uid)} })

(***************************************************************************)
(* Markup texts.  A text is what serializeDocument writes for a document   *)
(* tree; times are whole milliseconds.                                     *)
(***************************************************************************)
Stamp(ms) == MsToTimestamp(Millis(ms))

Timed(node, begin, end) == setAttr(setAttr(node, Lit_begin, Stamp(begin)), Lit_end, Stamp(end))

\* <span begin=".." end="..">text</span>
WordSpan(begin, end, text) ==
  appendChild(Timed(newElement(Lit_span), begin, end), newText(text))

\* <p begin=".." end="..">children</p>
Paragraph(begin, end, children) ==
  AppendChildren(Timed(newElement(Lit_p), begin, end), children)

\* <tt><head><metadata>metas</metadata></head><body><div>paragraphs</div></body></tt>
MarkupOf(metas, paragraphs) ==
  serializeDocument(
    appendChild(newDocument,
      AppendChildren(newElement(Lit_tt),
        << appendChild(newElement(Lit_head),
                       AppendChildren(newElement(Lit_metadata), metas)),
           appendChild(newElement(Lit_body),
                       AppendChildren(newElement(Lit_div), paragraphs)) >>)))

Meta(key, value) ==
  setAttr(setAttr(newElement(Lit_amll_meta), Lit_key, key), Lit_value, value)

StrSpace == <<32>>

StrAmp == <<97, 38, 98>>

\* Family 1, the children of one line: up to two of a text, a blank text
\* and two timed spans, in every order.
LineChildNodes ==
  {newText(StrA), newText(StrSpace), WordSpan(2, 4, StrA), WordSpan(4, 6, StrB)}

LineTexts ==
  {MarkupOf(<<>>, <<Paragraph(1, 6, children)>>) :
     children \in SeqsUpTo(LineChildNodes, 2)}

\* Family 2, texts ExportTTMLText wrote, as TestTTMLBinaryBridges makes its
\* text: for the document of that test with and without its metadata, its
\* translation, a duet flag and a background line after it, and for a
\* document with a blank word, romanized words, an obscene word, an empty
\* beat and songwriters.
BridgeTestLine(translatedLyric, isDuet) ==
  LyricLine(EmptyString,
    <<LyricWord(EmptyString, Millis(5), Millis(9), StrA, FALSE, Fin(0), EmptyString, FALSE),
      LyricWord(EmptyString, Millis(9), Millis(12), StrB, FALSE, Fin(0), EmptyString, FALSE)>>,
    translatedLyric, EmptyString, FALSE, isDuet, Millis(5), Millis(12), FALSE)

BridgeBGLine(isDuet) ==
  LyricLine(EmptyString,
    <<LyricWord(EmptyString, Millis(6), Millis(8), StrA, FALSE, Fin(0), EmptyString, FALSE),
      LyricWord(EmptyString, Millis(8), Millis(10), StrB, FALSE, Fin(0), EmptyString, FALSE)>>,
    EmptyString, EmptyString, TRUE, isDuet, Millis(6), Millis(10), FALSE)

BridgeTestDoc == TTMLLyric(<<TTMLMetadata(StrA, <<StrAB>>, FALSE)>>, <<BridgeTestLine(StrAB, FALSE)>>)

BridgeDocs ==
  {TTMLLyric(metadata,
             <<BridgeTestLine(translatedLyric, isDuet)>>
               \o (IF withBG THEN <<BridgeBGLine(isDuet)>> ELSE <<>>)) :
     metadata \in {<<>>, BridgeTestDoc.Metadata}, translatedLyric \in {EmptyString, StrAB},
     isDuet \in BOOLEAN, withBG \in BOOLEAN}

RichDoc ==
  TTMLLyric(<<TTMLMetadata(StrA, <<StrB, StrAB>>, FALSE),
              TTMLMetadata(Lit_songwriter, <<StrA, StrB>>, FALSE)>>,
    <<LyricLine(EmptyString,
        <<LyricWord(EmptyString, Millis(1), Millis(3), StrA, TRUE, Millis(2), StrB, FALSE),
          LyricWord(EmptyString, Millis(0), Millis(0), StrSpace, FALSE, Fin(0), EmptyString, FALSE),
          LyricWord(EmptyString, Millis(3), Millis(6), StrB, FALSE, Fin(0), EmptyString, FALSE)>>,
        StrA, EmptyString, FALSE, TRUE, Millis(1), Millis(6), FALSE),
      LyricLine(EmptyString,
        <<LyricWord(EmptyString, Millis(2), Millis(4), StrA, FALSE, Fin(0), StrAB, FALSE),
          LyricWord(EmptyString, Millis(4), Millis(5), StrB, FALSE, Fin(0), EmptyString, FALSE)>>,
        EmptyString, StrB, TRUE, TRUE, Millis(2), Millis(5), FALSE)>>)

ExportedTexts == {ExportTTMLText(d).text : d \in BridgeDocs \cup {RichDoc}}

\* Family 3, single texts: two lines of one word each; amll:meta entries
\* with the songwriter first; a translation that holds an entity; a
\* background line in a line-timed lyric; a time that rounds to one above
\* the ceiling of the binary format; a time far above it; a text that ends
\* inside an element.
SpecialTexts ==
  { MarkupOf(<<>>, <<Paragraph(1, 2, <<newText(StrA)>>),
                     Paragraph(3, 4, <<newText(StrB)>>)>>),
    MarkupOf(<<Meta(Lit_songwriter, StrA), Meta(StrA, StrB)>>,
             <<Paragraph(1, 6, <<WordSpan(1, 3, StrA), WordSpan(3, 6, StrB)>>)>>),
    MarkupOf(<<>>, <<Paragraph(1, 6,
                       <<WordSpan(1, 3, StrA), WordSpan(3, 6, StrB),
                         RoleSpan(Lit_x_translation, StrAmp)>>)>>),
    MarkupOf(<<>>, <<Paragraph(1, 2,
                       <<newText(StrA),
                         appendChild(Timed(setAttr(newElement(Lit_span), Lit_ttm_role,
                                                   Lit_x_bg), 1, 2),
                                     newText(LeftParen \o StrB \o RightParen))>>)>>),
    MarkupOf(<<>>, <<Paragraph(1, maxBinaryTimeMS + 2, <<newText(StrA)>>)>>),
    MarkupOf(<<>>, <<Paragraph(1, 2 * maxBinaryTimeMS, <<newText(StrA)>>)>>),
    SubSeq(MarkupOf(<<>>, <<Paragraph(1, 2, <<newText(StrA)>>)>>), 1, 40) }

BridgeTexts == LineTexts \cup ExportedTexts \cup SpecialTexts

(***************************************************************************)
(* The bridge as TestTTMLBinaryBridges drives it: TTMLToBinary of a text,  *)
(* DecodeBinary and BinaryToTTML of the payload, ParseLyric of the text    *)
(* recovered.                                                              *)
(***************************************************************************)
InitBridge ==
  /\ input = EmptyLyric
  /\ encoded = NoEnc
  /\ wire = <<>>
  /\ tamperLeft = 0
  /\ decoded = NoDec
  /\ reencoded = NoEnc
  /\ pc = "bridge"
  /\ uidCounter = 0
  /\ calls = <<>>
  /\ minted = <<>>
  /\ \E t \in BridgeTexts : bridge = [NoBridge EXCEPT !.pc = "text", !.ttmlText = t]
  /\ adding = NoAdding

\* binaryData, err := TTMLToBinary(ttmlText)
BridgeToBinary ==
  /\ bridge.pc = "text"
  /\ \E out \in {TTMLToBinary(bridge.ttmlText, uidCounter)} :
       /\ bridge' = [bridge EXCEPT !.pc = IF out.ok THEN "binary" ELSE "rejected",
                                   !.binaryData = out.bytes]
       /\ uidCounter' = out.uid
  /\ UNCHANGED sequentialVars
  /\ UNCHANGED concurrentVars
  /\ UNCHANGED arithVars

\* decodedLyric, err := DecodeBinary(binaryData)
BridgeDecode ==
  /\ bridge.pc = "binary"
  /\ \E out \in {DecodeBinary(bridge.binaryData, uidCounter)} :
       /\ bridge' = [bridge EXCEPT !.pc = IF out.st = "ok" THEN "decoded" ELSE "undecoded",
                                   !.decodedLyric = out.doc]
       /\ uidCounter' = out.uid
  /\ UNCHANGED sequentialVars
  /\ UNCHANGED concurrentVars
  /\ UNCHANGED arithVars

\* recoveredTTML, err := BinaryToTTML(binaryData, false)
BridgeToTTML ==
  /\ bridge.pc = "decoded"
  /\ \E out \in {BinaryToTTML(bridge.binaryData, uidCounter)} :
       /\ bridge' = [bridge EXCEPT !.pc = IF out.st = "ok" THEN "recovered" ELSE out.st,
                                   !.recoveredTTML = out.text]
       /\ uidCounter' = out.uid
  /\ UNCHANGED sequentialVars
  /\ UNCHANGED concurrentVars
  /\ UNCHANGED arithVars

\* parsedRecovered, err := ParseLyric(recoveredTTML)
BridgeParse ==
  /\ bridge.pc = "recovered"
  /\ \E out \in {ParseLyric(bridge.recoveredTTML, uidCounter)} :
       /\ bridge' = [bridge EXCEPT !.pc = IF out.ok THEN "parsed" ELSE "unparsed",
                                   !.parsedRecovered = out.lyric]
       /\ uidCounter' = out.uid
  /\ UNCHANGED sequentialVars
  /\ UNCHANGED concurrentVars
  /\ UNCHANGED arithVars

NextBridge == BridgeToBinary \/ BridgeDecode \/ BridgeToTTML \/ BridgeParse

SpecBridge == InitBridge /\ [][NextBridge]_vars


(***************************************************************************)
(* C20.  Bridge equivalence.                                               *)
(***************************************************************************)
BridgeEqual == EraseIDs(bridge.parsedRecovered) = EraseIDs(bridge.decodedLyric)

\* C20: as stated - for every markup text t that ParseLyric accepts and
\* TTMLToBinary encodes, BinaryToTTML of the payload returns a text,
\* ParseLyric accepts that text, and the document it reads equals the
\* document DecodeBinary reads from the payload once ids are ignored.
C20_BridgeAsStated ==
  /\ bridge.pc # "panic"
  /\ bridge.pc # "unparsed"
  /\ bridge.pc = "parsed" => BridgeEqual

\* C20: what holds - for the texts ExportTTMLText wrote of the word-timed
\* documents of TestTTMLBinaryBridges' shape, the bridge returns and the two
\* documents are equal once ids are ignored; and ParseLyric accepts every
\* text BinaryToTTML returned.
C20_BridgeOfExportedTexts ==
  /\ bridge.pc # "unparsed"
  /\ bridge.ttmlText \in ExportedTexts =>
       /\ bridge.pc \notin {"rejected", "undecoded", "error", "panic"}
       /\ bridge.pc = "parsed" => BridgeEqual

\* The bridge went through for a text with a translated duet line and a
\* background line, and for the text of the test itself.
C20_Witness ==
  /\ bridge.pc = "parsed"
  /\ bridge.ttmlText \in ExportedTexts
  /\ Len(bridge.decodedLyric.LyricLines) = 2
  /\ bridge.decodedLyric.LyricLines[2].IsBG
  /\ bridge.decodedLyric.LyricLines[1].IsDuet
  /\ bridge.decodedLyric.LyricLines[1].TranslatedLyric = StrAB
  /\ bridge.decodedLyric.Metadata # <<>>

(***************************************************************************)
(* C21: the order of the sections in a decode.                             *)
(***************************************************************************)
\* Where the sections of the payload EncodeBinary returned begin: the number
\* of bytes before the header section, the string pool and the lyric data.
HeaderStart == Len(Preamble) + Len(PutUvarint(Len(encoded.header)))

PoolStart == HeaderStart + Len(encoded.header)

LyricStart == PoolStart + Len(PoolSectionOf(encoded.pool))

\* The payload delivered is the one returned but for bytes after the first
\* `lo` and within the first `hi`.
DiffersOnlyIn(lo, hi) ==
  /\ encoded.st = "ok"
  /\ Len(wire) = Len(encoded.bytes)
  /\ wire # encoded.bytes
  /\ \A i \in 1..Len(wire) : wire[i] # encoded.bytes[i] => (lo < i /\ i <= hi)

\* What DecodeBinary makes of the payload as it was returned.
OwnDecode == DecodeBinary(encoded.bytes, 0)

\* The stage of DecodeBinary that reads a field: 1 the preamble and the
\* header slice, 2 decodeStringPoolSection, 3 decodeHeaderSection, 4
\* decodeLyricDataSection.
StageOf(field) ==
  IF field \in {"version", "global_flags", "header_size"} THEN 1
  ELSE IF field \in {"string_count", "string.length"} THEN 2
  ELSE IF field \in {"metadata_count", "metadata.key_string_id", "metadata.value_count",
                     "metadata.value_string_id", "metadata.error_flag", "header_left"}
    THEN 3
  ELSE 4

StageEvents(dec, stage) == SelectSeq(dec.trace, LAMBDA e : StageOf(e.field) = stage)

\* C21: as stated - no section is decoded from a section later in the byte
\* stream, only the lyric data refers to the string pool: a payload that
\* differs from the one EncodeBinary returned in bytes of the string-pool
\* section only, and that DecodeBinary accepts, gives the metadata of the
\* payload returned.
C21_SectionOrderAsStated ==
  (Decoded /\ DiffersOnlyIn(PoolStart, LyricStart) /\ decoded.st = "ok") =>
     decoded.doc.Metadata = OwnDecode.doc.Metadata

\* C21: DecodeBinary reads the preamble and the bytes of the header section,
\* then the string pool, then decodes the header entries, then the lyric
\* data, in this order.  Every string id, of a header entry or of the lyric
\* data, is read when the whole pool announced has been read.  The pool
\* decoded does not depend on the bytes of the header section; the pool and
\* what is read of the header entries do not depend on the bytes of the
\* lyric data; the preamble and header length read do not depend on the
\* bytes of the pool.
C21_SectionOrder ==
  Decoded =>
    /\ \A i \in 1..Len(decoded.trace) : \A j \in i..Len(decoded.trace) :
         StageOf(decoded.trace[i].field) <= StageOf(decoded.trace[j].field)
    /\ \A j \in 1..Len(decoded.trace) :
         decoded.trace[j].field \in StringIDFields =>
           \E i \in 1..(j - 1) :
             /\ decoded.trace[i].field = "string_count"
             /\ decoded.trace[i].v = Len(decoded.stringPool)
             /\ Len(StageEvents(decoded, 2)) = 1 + decoded.trace[i].v
    /\ DiffersOnlyIn(HeaderStart, PoolStart) => decoded.stringPool = encoded.pool
    /\ DiffersOnlyIn(PoolStart, LyricStart) =>
         StageEvents(decoded, 1) = StageEvents(OwnDecode, 1)
    /\ DiffersOnlyIn(LyricStart, Len(wire)) =>
         /\ decoded.stringPool = encoded.pool
         /\ StageEvents(decoded, 3) = StageEvents(OwnDecode, 3)
         /\ decoded.st = "ok" => decoded.doc.Metadata = OwnDecode.doc.Metadata

\* A payload with a byte of a pool string overwritten was decoded: the key of
\* its metadata entry is the overwritten string.
C21_Witness ==
  /\ Decoded
  /\ DiffersOnlyIn(PoolStart, LyricStart)
  /\ decoded.st = "ok"
  /\ Len(decoded.doc.Metadata) = 1
  /\ decoded.doc.Metadata[1].Key # input.Metadata[1].Key
  /\ decoded.doc.Metadata[1].Key = decoded.stringPool[1]
  /\ \E j \in 1..Len(decoded.trace) : decoded.trace[j].field = "word.text_string_id"

(***************************************************************************)
(* C22: source timing that cannot be encoded.                              *)
(***************************************************************************)
\* The times and empty beats of a document in the order EncodeBinary
\* converts them: per line its start, its end, then per word its start,
\* its end and its empty beat.
TimingField(line, word, field, value, isBeat) ==
  [line |-> line, word |-> word, field |-> field, value |-> value, isBeat |-> isBeat]

WordTimingFields(l, i) ==
  Flatten([j \in 1..Len(l.Words) |->
             <<TimingField(i - 1, j - 1, "start_time", l.Words[j].StartTime, FALSE),
               TimingField(i - 1, j - 1, "end_time", l.Words[j].EndTime, FALSE),
               TimingField(i - 1, j - 1, "empty_beat", l.Words[j].EmptyBeat, TRUE)>>])

TimingFields(d) ==
  Flatten([i \in 1..Len(d.LyricLines) |->
             <<TimingField(i - 1, 0 - 1, "start_time", d.LyricLines[i].StartTime, FALSE),
               TimingField(i - 1, 0 - 1, "end_time", d.LyricLines[i].EndTime, FALSE)>>
               \o WordTimingFields(d.LyricLines[i], i)])

\* A time that is not a number, infinite or negative.
InvalidTiming(t) == t.k # "fin" \/ t.q < 0

\* A field EncodeBinary cannot convert: an invalid time, a time rounding
\* above the encoder's ceiling, a finite positive empty beat rounding above it.
Offending(f) ==
  IF f.isBeat THEN f.value.k = "fin" /\ f.value.q > 0 /\ RoundMS(f.value) > EncoderCeiling
  ELSE InvalidTiming(f.value) \/ RoundMS(f.value) > EncoderCeiling

ErrorOf(f) ==
  Err(IF f.value.k # "fin" THEN "must be a finite number"
      ELSE IF f.value.q < 0 THEN "must be >= 0" ELSE "overflow",
      f.line, f.word, f.field)

OffendingAt(d) == {k \in 1..Len(TimingFields(d)) : Offending(TimingFields(d)[k])}

\* C22: EncodeBinary fails whenever a line or word start or end time is not
\* a number, infinite or negative, a negative value rounding to 0 included;
\* it fails exactly when some time or empty beat cannot be converted, returns
\* no bytes then, and the error it returns is that of the first such field in
\* the order: per line its start, its end, then per word its start, its end
\* and its empty beat, a line wholly before the next.
C22_InvalidTiming ==
  pc # "start" =>
    /\ (\E t \in TimesOf(input) : InvalidTiming(t)) => encoded.st = "error"
    /\ encoded.st = "error" <=> OffendingAt(input) # {}
    /\ encoded.st = "error" =>
         /\ encoded.err = ErrorOf(TimingFields(input)[SetMin(OffendingAt(input))])
         /\ encoded.bytes = <<>>

\* An encode failed on a word end that is negative and rounds to 0, in the
\* first line, the second line holding a field that cannot be converted
\* either.
C22_Witness ==
  /\ pc = "failed"
  /\ encoded.err = Err("must be >= 0", 0, 0, "end_time")
  /\ Len(input.LyricLines) = 2
  /\ input.LyricLines[1].Words[1].EndTime = Fin(0 - 1)
  /\ \E k \in OffendingAt(input) : TimingFields(input)[k].line = 1

(***************************************************************************)
(* C23: safeAddMillis, called with every pair of uint64 values.            *)
(***************************************************************************)
InitSafeAdd ==
  /\ input = EmptyLyric
  /\ encoded = NoEnc
  /\ wire = <<>>
  /\ tamperLeft = 0
  /\ decoded = NoDec
  /\ reencoded = NoEnc
  /\ pc = "arith"
  /\ uidCounter = 0
  /\ calls = <<>>
  /\ minted = <<>>
  /\ bridge = NoBridge
  /\ \E base \in 0..(WordMod - 1), delta \in 0..(WordMod - 1) :
       adding = [NoAdding EXCEPT !.pc = "called", !.base = base, !.delta = delta]

\* safeAddMillis(base, delta, field)
SafeAdd ==
  /\ adding.pc = "called"
  /\ \E out \in {safeAddMillis(adding.base, adding.delta)} :
       adding' = [adding EXCEPT !.pc = "returned", !.ok = out.ok, !.v = out.v]
  /\ UNCHANGED uidCounter
  /\ UNCHANGED sequentialVars
  /\ UNCHANGED concurrentVars
  /\ UNCHANGED bridgeVars

NextSafeAdd == SafeAdd

SpecSafeAdd == InitSafeAdd /\ [][NextSafeAdd]_vars

\* C23: safeAddMillis(base, delta) fails exactly when base + delta, as a sum
\* of integers, is above the time ceiling, so whenever base or delta alone is
\* above it; otherwise it returns base + delta, which is then neither
\* wrapped nor above the ceiling.
C23_SafeAddMillis ==
  adding.pc = "returned" =>
    /\ ~adding.ok <=> adding.base + adding.delta > maxBinaryTimeMS
    /\ (adding.base > maxBinaryTimeMS \/ adding.delta > maxBinaryTimeMS) => ~adding.ok
    /\ adding.ok =>
         /\ adding.v = adding.base + adding.delta
         /\ adding.v <= maxBinaryTimeMS

\* safeAddMillis was called with a delta above the ceiling and a base that
\* makes the uint64 sum wrap to a small value, and failed.
C23_Witness ==
  /\ adding.pc = "returned"
  /\ adding.delta > maxBinaryTimeMS
  /\ adding.base <= maxBinaryTimeMS
  /\ adding.base + adding.delta >= WordMod
  /\ Wrap(adding.base + adding.delta) <= maxBinaryTimeMS
  /\ ~adding.ok

(***************************************************************************)
(* C24: the times of a decoded document.                                   *)
(***************************************************************************)
\* The value DecodeBinary read for a field of line i, or of its word j (0
\* when the field is not in the record).
LineValue(field, i) == SetMax({0} \cup {e.v : e \in LineEvents(field, i)})

WordValue(field, i, j) == SetMax({0} \cup {e.v : e \in WordEvents(field, i, j)})

\* A float holding a whole number of milliseconds from 0 to the ceiling.
WholeInCeiling(t) ==
  t.k = "fin" /\ t.q % 4 = 0 /\ 0 <= t.q /\ t.q <= 4 * maxBinaryTimeMS

\* C24: as stated - in every document DecodeBinary returns, every line and
\* word time and every empty beat is a whole number from 0 to the ceiling,
\* each word's start is its line's start plus the delta_start read, each
\* word's end is its start plus the duration read.
C24_TimingAsStated ==
  (Decoded /\ decoded.st = "ok") =>
    /\ \A t \in TimesOf(decoded.doc) \cup BeatsOf(decoded.doc) : WholeInCeiling(t)
    /\ \A i \in 1..Len(decoded.doc.LyricLines) :
         \A j \in 1..Len(decoded.doc.LyricLines[i].Words) :
           /\ decoded.doc.LyricLines[i].Words[j].StartTime.q
                = decoded.doc.LyricLines[i].StartTime.q
                    + 4 * WordValue("word.delta_start_time", i, j)
           /\ decoded.doc.LyricLines[i].Words[j].EndTime.q
                = decoded.doc.LyricLines[i].Words[j].StartTime.q
                    + 4 * WordValue("word.duration", i, j)

\* C24: in every document DecodeBinary returns, of whatever payload, every
\* line and word time and every empty beat is float64(n) for a whole number
\* n from 0 to the ceiling: n the start or end read for a line, the line
\* start read plus the delta_start read for a word start, that sum plus the
\* duration read for a word end (neither sum wrapped nor above the ceiling),
\* the empty beat read, or 0 for an empty beat not in the record.  So every
\* time is a whole number from 0 to float64(ceiling), equal to n when n has
\* no more bits than the mantissa, and word.start >= line.start,
\* word.end >= word.start, line.end >= line.start.
C24_Timing ==
  (Decoded /\ decoded.st = "ok") =>
    /\ \A t \in TimesOf(decoded.doc) \cup BeatsOf(decoded.doc) :
         /\ t.k = "fin" /\ t.q % 4 = 0 /\ 0 <= t.q
         /\ t.q <= Float64(maxBinaryTimeMS).q
    /\ \A i \in 1..Len(decoded.doc.LyricLines) :
         /\ LineValue("line.end_time", i) <= maxBinaryTimeMS
         /\ decoded.doc.LyricLines[i].StartTime = Float64(LineValue("line.start_time", i))
         /\ decoded.doc.LyricLines[i].EndTime = Float64(LineValue("line.end_time", i))
         /\ decoded.doc.LyricLines[i].EndTime.q >= decoded.doc.LyricLines[i].StartTime.q
         /\ \A j \in 1..Len(decoded.doc.LyricLines[i].Words) :
              /\ LineValue("line.start_time", i) + WordValue("word.delta_start_time", i, j)
                   + WordValue("word.duration", i, j) <= maxBinaryTimeMS
              /\ WordValue("word.empty_beat_ms", i, j) <= maxBinaryTimeMS
              /\ decoded.doc.LyricLines[i].Words[j].StartTime
                   = Float64(LineValue("line.start_time", i)
                               + WordValue("word.delta_start_time", i, j))
              /\ decoded.doc.LyricLines[i].Words[j].EndTime
                   = Float64(LineValue("line.start_time", i)
                               + WordValue("word.delta_start_time", i, j)
                               + WordValue("word.duration", i, j))
              /\ decoded.doc.LyricLines[i].Words[j].EmptyBeat
                   = Float64(WordValue("word.empty_beat_ms", i, j))
              /\ decoded.doc.LyricLines[i].Words[j].StartTime.q
                   >= decoded.doc.LyricLines[i].StartTime.q
              /\ decoded.doc.LyricLines[i].Words[j].EndTime.q
                   >= decoded.doc.LyricLines[i].Words[j].StartTime.q
              /\ LineValue("line.start_time", i) + WordValue("word.delta_start_time", i, j)
                     + WordValue("word.duration", i, j) <= Pow2(MantBits) =>
                   /\ decoded.doc.LyricLines[i].Words[j].StartTime.q
                        = decoded.doc.LyricLines[i].StartTime.q
                            + 4 * WordValue("word.delta_start_time", i, j)
                   /\ decoded.doc.LyricLines[i].Words[j].EndTime.q
                        = decoded.doc.LyricLines[i].Words[j].StartTime.q
                            + 4 * WordValue("word.duration", i, j)

\* A payload that is not an encoder's output was accepted: the duration of
\* a word was overwritten, and the end of the word decoded is float64 of a
\* sum that has more bits than the mantissa.
C24_Witness ==
  /\ Decoded
  /\ decoded.st = "ok"
  /\ wire # encoded.bytes
  /\ \E i \in 1..Len(decoded.doc.LyricLines) :
       \E j \in 1..Len(decoded.doc.LyricLines[i].Words) :
         /\ WordValue("word.duration", i, j) > Pow2(MantBits)
         /\ decoded.doc.LyricLines[i].Words[j].EndTime.q
              # decoded.doc.LyricLines[i].Words[j].StartTime.q
                  + 4 * WordValue("word.duration", i, j)

(***************************************************************************)
(* C25: truncated input.                                                   *)
(***************************************************************************)
Prefix(bytes, n) == SubSeq(bytes, 1, n)

IsStrictPrefix(p, bytes) == Len(p) < Len(bytes) /\ p = Prefix(bytes, Len(p))

\* The errors of a stream that ends inside a field: of io.ReadFull and
\* ReadByte, of readUvarint, of readBytes.
TruncationKinds == {"EOF", "unexpected EOF", "exceeds remaining bytes"}

Truncated(dec) ==
  dec.st = "error" /\ dec.err.kind \in TruncationKinds /\ dec.doc = EmptyLyric

\* C25: DecodeBinary reads no byte past the end of the payload; it rejects
\* every strict prefix of a payload EncodeBinary produced, and every payload
\* cut short of the bytes an accepted payload was read to, with the error of
\* a stream that ended inside a field and no document.
C25_TruncatedInput ==
  Decoded =>
    /\ decoded.read <= Len(wire)
    /\ (encoded.st = "ok" /\ IsStrictPrefix(wire, encoded.bytes)) => Truncated(decoded)
    /\ decoded.st = "ok" =>
         \A n \in 0..(decoded.read - 1) : Truncated(DecodeBinary(Prefix(wire, n), 0))

\* A payload cut inside the lyric data, after its header and string pool,
\* was rejected.
C25_Witness ==
  /\ Decoded
  /\ encoded.st = "ok"
  /\ IsStrictPrefix(wire, encoded.bytes)
  /\ Len(wire) > LyricStart
  /\ decoded.st = "error"
  /\ decoded.read = Len(wire)

(***************************************************************************)
(* C26: the flag bytes and the optional fields of a payload.               *)
(***************************************************************************)
\* The bytes of a word record whose optional fields are those of its flag
\* byte: roman_string_id on bit 2, then empty_beat_ms on bit 1.
WordLayout(w, source, lineStartMS) ==
  PutUvarint(w.startMS - lineStartMS)
    \o PutUvarint(w.endMS - w.startMS)
    \o PutUvarint(IndexOf(encoded.pool, source.Word))
    \o <<w.wordFlags>>
    \o (IF HasFlag(w.wordFlags, wordFlagHasRomanWord)
          THEN PutUvarint(IndexOf(encoded.pool, source.RomanWord)) ELSE <<>>)
    \o (IF HasFlag(w.wordFlags, wordFlagHasEmptyBeat)
          THEN PutUvarint(w.emptyBeatMS) ELSE <<>>)

\* The bytes of a line record whose optional fields are those of its flag
\* byte: translated_string_id on bit 3, then roman_string_id on bit 4, and
\* whose word_count is the number of the word records that follow.
LineLayout(l, source) ==
  PutUvarint(l.startMS) \o PutUvarint(l.endMS) \o <<l.lineFlags>>
    \o PutUvarint(Len(l.words))
    \o (IF HasFlag(l.lineFlags, lineFlagHasTranslatedLyric)
          THEN PutUvarint(IndexOf(encoded.pool, source.TranslatedLyric)) ELSE <<>>)
    \o (IF HasFlag(l.lineFlags, lineFlagHasRomanLyric)
          THEN PutUvarint(IndexOf(encoded.pool, source.RomanLyric)) ELSE <<>>)
    \o Flatten([j \in 1..Len(l.words) |-> WordLayout(l.words[j], source.Words[j], l.startMS)])

\* C26: in every payload EncodeBinary produces, bits 5-7 of every line-flag
\* byte and bits 4-7 of every word-flag byte are zero; the has-translated,
\* has-roman-lyric and has-roman-word bits are set exactly when the source
\* string is not empty, the has-empty-beat bit exactly when an empty beat
\* (a positive number of milliseconds) is written; the lyric data is
\* line_count and, for each line, the record with the optional fields of its
\* bits in the order translated, roman, then one record for each word of
\* the source with the optional fields of its bits in the order roman, empty
\* beat; word_count is the number of those records.
C26_FlagsMatchFields ==
  encoded.st = "ok" =>
    /\ Len(encoded.written) = Len(input.LyricLines)
    /\ \A i \in 1..Len(encoded.written) :
         /\ encoded.written[i].lineFlags \div 32 = 0
         /\ HasFlag(encoded.written[i].lineFlags, lineFlagHasTranslatedLyric)
              <=> input.LyricLines[i].TranslatedLyric # EmptyString
         /\ HasFlag(encoded.written[i].lineFlags, lineFlagHasRomanLyric)
              <=> input.LyricLines[i].RomanLyric # EmptyString
         /\ Len(encoded.written[i].words) = Len(input.LyricLines[i].Words)
         /\ \A j \in 1..Len(encoded.written[i].words) :
              /\ encoded.written[i].words[j].wordFlags \div 16 = 0
              /\ HasFlag(encoded.written[i].words[j].wordFlags, wordFlagHasRomanWord)
                   <=> input.LyricLines[i].Words[j].RomanWord # EmptyString
              /\ HasFlag(encoded.written[i].words[j].wordFlags, wordFlagHasEmptyBeat)
                   <=> (encoded.written[i].words[j].hasEmptyBeat
                          /\ encoded.written[i].words[j].emptyBeatMS > 0)
    /\ encoded.lyric
         = PutUvarint(Len(encoded.written))
             \o Flatten([i \in 1..Len(encoded.written) |->
                           LineLayout(encoded.written[i], input.LyricLines[i])])
    /\ Len(encoded.bytes) = LyricStart + Len(encoded.lyric)
    /\ SubSeq(encoded.bytes, LyricStart + 1, Len(encoded.bytes)) = encoded.lyric

\* A payload was produced for a line with one of its two optional strings
\* whose words differ: one has a roman word and an empty beat, one not both.
C26_Witness ==
  /\ encoded.st = "ok"
  /\ \E i \in 1..Len(encoded.written) :
       /\ HasFlag(encoded.written[i].lineFlags, lineFlagHasTranslatedLyric)
            # HasFlag(encoded.written[i].lineFlags, lineFlagHasRomanLyric)
       /\ \E j, k \in 1..Len(encoded.written[i].words) :
            /\ HasFlag(encoded.written[i].words[j].wordFlags, wordFlagHasRomanWord)
            /\ HasFlag(encoded.written[i].words[j].wordFlags, wordFlagHasEmptyBeat)
            /\ ~(HasFlag(encoded.written[i].words[k].wordFlags, wordFlagHasRomanWord)
                  /\ HasFlag(encoded.written[i].words[k].wordFlags, wordFlagHasEmptyBeat))

(***************************************************************************)
(* C27: the round trip of canonical documents.                             *)
(***************************************************************************)
\* A whole, non-negative number of milliseconds; one not above the ceiling.
WholeMillis(t) == t.k = "fin" /\ t.q >= 0 /\ t.q % 4 = 0

WholeMillisInCeiling(t) == WholeMillis(t) /\ t.q <= 4 * maxBinaryTimeMS

\* Every line's end is not before its start; every word's end is not before
\* its start and the word lies inside its line.
WellNested(d) ==
  \A i \in 1..Len(d.LyricLines) :
    /\ d.LyricLines[i].StartTime.q <= d.LyricLines[i].EndTime.q
    /\ \A w \in Range(d.LyricLines[i].Words) :
         /\ d.LyricLines[i].StartTime.q <= w.StartTime.q
         /\ w.StartTime.q <= w.EndTime.q
         /\ w.EndTime.q <= d.LyricLines[i].EndTime.q

RoundTripsUnchanged ==
  /\ pc # "start" => encoded.st = "ok"
  /\ (Decoded /\ wire = encoded.bytes) =>
       /\ decoded.st = "ok"
       /\ EraseIDs(decoded.doc) = EraseIDs(input)

\* C27 as stated: a document whose times are whole numbers from 0 to the
\* ceiling, whose lines and words are well ordered and nested, and whose
\* empty beats are 0 or positive whole numbers, is encoded, decoded, and
\* comes back as it was but for the ids.
C27_CanonicalAsStated ==
  (/\ \A t \in TimesOf(input) : WholeMillisInCeiling(t)
   /\ WellNested(input)
   /\ \A b \in BeatsOf(input) : WholeMillis(b)) => RoundTripsUnchanged

\* C27: a document whose times are whole numbers from 0 to the ceiling,
\* whose lines and words are well ordered and nested, and whose empty beats
\* are whole numbers from 0 to the ceiling, is encoded, decoded, and comes
\* back as it was but for the ids: metadata, flags, translated and roman
\* lyrics, word texts, roman words, empty beats and times unchanged.
C27_Canonical ==
  (/\ \A t \in TimesOf(input) : WholeMillisInCeiling(t)
   /\ WellNested(input)
   /\ \A b \in BeatsOf(input) : WholeMillisInCeiling(b)) => RoundTripsUnchanged

\* A canonical document came back: it has metadata, a line with a
\* translation, a word with a roman word and an empty beat, and a word that
\* ends after it starts, inside its line.
C27_Witness ==
  /\ DecodedOwnBytes
  /\ decoded.st = "ok"
  /\ \A t \in TimesOf(input) \cup BeatsOf(input) : WholeMillisInCeiling(t)
  /\ WellNested(input)
  /\ EraseIDs(decoded.doc) = EraseIDs(input)
  /\ Len(input.Metadata) > 0
  /\ \E i \in 1..Len(input.LyricLines) :
       /\ input.LyricLines[i].TranslatedLyric # EmptyString
       /\ \E w \in Range(input.LyricLines[i].Words) :
            /\ w.RomanWord # EmptyString
            /\ w.EmptyBeat.q > 0
            /\ w.StartTime.q < w.EndTime.q

(***************************************************************************)
(* C28: the decoder on the encoder's output.                               *)
(***************************************************************************)
\* The deltas and durations written are differences that did not go below
\* zero, and every string id written is an index of the pool.
WrittenWithoutUnderflow(enc) ==
  \A i \in 1..Len(enc.written) :
    /\ enc.written[i].startMS <= enc.written[i].endMS
    /\ \A w \in Range(enc.written[i].words) :
         /\ enc.written[i].startMS <= w.startMS
         /\ w.startMS <= w.endMS
         /\ w.endMS <= enc.written[i].endMS

WrittenIDsInPool(enc) ==
  \A i \in 1..Len(enc.written) : \A w \in Range(enc.written[i].words) :
    /\ w.textID < Len(enc.pool)
    /\ w.hasRomanWord => w.romanID < Len(enc.pool)

\* C28 as stated: whenever EncodeBinary succeeds, no time or empty beat it
\* wrote is above the ceiling the decoder enforces, no delta or duration
\* went below zero, every string id is inside the pool, and DecodeBinary
\* accepts the bytes.
C28_DecodableAsStated ==
  encoded.st = "ok" =>
    /\ \A v \in WrittenTimes(encoded) : v <= maxBinaryTimeMS
    /\ WrittenWithoutUnderflow(encoded)
    /\ WrittenIDsInPool(encoded)
    /\ DecodedOwnBytes => decoded.st = "ok"

\* C28: whenever EncodeBinary succeeds, no delta or duration went below
\* zero, every string id is inside the pool, and no time or empty beat
\* written is above float64(ceiling), one more than the ceiling; the
\* decoder accepts the bytes when none is above the ceiling and fails with
\* an overflow error when one is.
C28_DecodableBelowCeiling ==
  encoded.st = "ok" =>
    /\ \A v \in WrittenTimes(encoded) : v <= EncoderCeiling
    /\ WrittenWithoutUnderflow(encoded)
    /\ WrittenIDsInPool(encoded)
    /\ DecodedOwnBytes =>
         IF \A v \in WrittenTimes(encoded) : v <= maxBinaryTimeMS
           THEN decoded.st = "ok"
           ELSE decoded.st = "error" /\ decoded.err.kind = "overflow"

\* EncodeBinary wrote a line end above the decoder's ceiling, with a word
\* inside the line, and DecodeBinary rejected the bytes.
C28_Witness ==
  /\ DecodedOwnBytes
  /\ decoded.st = "error"
  /\ decoded.err.kind = "overflow"
  /\ \E i \in 1..Len(encoded.written) :
       /\ encoded.written[i].endMS > maxBinaryTimeMS
       /\ encoded.written[i].words # <<>>

(***************************************************************************)
(* C29: bytes after the lyric data.                                        *)
(***************************************************************************)
\* The byte strings appended to a payload: one byte, or two.
AppendedBytes ==
  {<<b>> : b \in TamperBytes} \cup {<<b, c>> : b \in TamperBytes, c \in TamperBytes}

\* The payload delivered is the one EncodeBinary returned and bytes after it.
Extended == encoded.st = "ok" /\ IsStrictPrefix(encoded.bytes, wire)

\* C29: a payload DecodeBinary accepts is accepted with any bytes appended,
\* and decodes to the same document but for the ids, the reader stopping
\* where it stopped before; so the bytes EncodeBinary returned, when they
\* are accepted, are accepted with a byte after them.
C29_TrailingBytesIgnored ==
  /\ (Decoded /\ decoded.st = "ok") =>
       \A x \in AppendedBytes : \A longer \in {DecodeBinary(wire \o x, 0)} :
         /\ longer.st = "ok"
         /\ EraseIDs(longer.doc) = EraseIDs(decoded.doc)
         /\ longer.read = decoded.read
  /\ (Decoded /\ Extended /\ OwnDecode.st = "ok") =>
       /\ decoded.st = "ok"
       /\ EraseIDs(decoded.doc) = EraseIDs(OwnDecode.doc)
       /\ decoded.read = Len(encoded.bytes)

\* A payload of EncodeBinary with a byte after it was decoded to a document
\* with a line and a word, the appended byte unread.
C29_Witness ==
  /\ Decoded
  /\ Extended
  /\ decoded.st = "ok"
  /\ decoded.read < Len(wire)
  /\ \E i \in 1..Len(decoded.doc.LyricLines) : decoded.doc.LyricLines[i].Words # <<>>

(***************************************************************************)
(* C30: BinaryToTTML on every payload.                                     *)
(***************************************************************************)
\* BinaryToTTML returned an error and no text for a payload DecodeBinary
\* rejected, and the text of ExportTTMLText for one it accepted.
BridgeReturns ==
  /\ bridge.pc = "undecoded" =>
       \A out \in {BinaryToTTML(bridge.binaryData, 0)} :
         out.st = "error" /\ out.text = <<>>
  /\ bridge.pc # "error"
  /\ bridge.pc \in {"recovered", "parsed", "unparsed"} =>
       \A out \in {ExportTTMLText(bridge.decodedLyric)} :
         out.ok /\ bridge.recoveredTTML = out.text

SomeLineWithoutWords(d) == \E i \in 1..Len(d.LyricLines) : d.LyricLines[i].Words = <<>>

\* C30: as stated - BinaryToTTML returns for every payload: an error and no
\* text exactly when DecodeBinary rejects it, the text of ExportTTMLText
\* otherwise; it never ends in a runtime failure, lines of zero words
\* included.
C30_TotalAsStated == bridge.pc # "panic" /\ BridgeReturns

\* C30: what holds - BinaryToTTML returns an error and no text exactly when
\* DecodeBinary rejects the payload, and the text of ExportTTMLText when
\* that returns; it ends in a runtime failure only for a decoded document
\* that is line-timed (no line has two words that are not blank) and has a
\* line with no word, so never when every line has a word.
C30_TotalOnLinesWithWords ==
  /\ BridgeReturns
  /\ bridge.pc = "panic" =>
       /\ SomeLineWithoutWords(bridge.decodedLyric)
       /\ ~IsDynamicLyric(bridge.decodedLyric.LyricLines)

\* BinaryToTTML was called on a payload DecodeBinary accepts, one of whose
\* lines has zero words, and did not return.
C30_Witness ==
  /\ bridge.pc = "panic"
  /\ bridge.decodedLyric.LyricLines # <<>>
  /\ SomeLineWithoutWords(bridge.decodedLyric)
  /\ DecodeBinary(bridge.binaryData, 0).st = "ok"

====
